---- MODULE Spec2Model ----
(***************************************************************************)
(* A model of pymfit's configuration / result subsystem:                   *)
(*   - Param (model.py): value, bounds and fixed flag with their setters;  *)
(*   - ModelComponent and Model (model.py): construction, set_param;       *)
(*   - the build-time tree and the result tree (multicomponent.py);        *)
(*   - array on the result tree, over a point-like profile;               *)
(*   - Model on the caller's own funcs, params and centers (model.py);     *)
(*   - the result parsers read_results and read_multicomponentresults      *)
(*     (core.py);                                                          *)
(*   - PymFitter.write_config / read_results (pymfitter.py) over a Model;  *)
(*   - the serializers write_config / write_component and                  *)
(*     write_multicomponentconfig (core.py) and the files they write.      *)
(* Python's None is the empty sequence <<>>, a present number v is <<v>>.  *)
(* Each subsystem has its own specification; the variables of the other    *)
(* subsystems stay at their idle values.                                   *)
(***************************************************************************)
EXTENDS Integers, Sequences, FiniteSets, TLC

VARIABLES
    par,        \* the Param object: value, vmin, vmax, fixed, relative_limits
    parPrev,    \* the Param's fields just before the last call
    parOp,      \* the last call on the Param
    parErr,     \* TRUE iff the last call raised (AssertionError)
    ctorBoth,   \* TRUE iff the Param was constructed with both bounds stored
    parRejected, \* TRUE iff some call on the Param has raised so far
    rtree,      \* the MultiComponentResults object (the result tree)
    tOp,        \* the last call on the result tree, with its arguments
    tErr,       \* TRUE iff the last call on the result tree raised
    tArgs,      \* per object index, the arguments add_object was called with
    image,      \* the grid the last call returned, if it was array and returned
    text,       \* the lines of a multi-component result file
    parsed,     \* what read_multicomponentresults returned for text, if called
    model,      \* the Model a PymFitter holds: ncomp and comp_1..comp_N
    config,     \* the config file PymFitter.write_config wrote, if any
    outText,    \* the best-fit file the external fit wrote, if any
    results,    \* PymFitter.results
    fitPc,      \* how far PymFitter.run has come, or "failed"
    paramDict,  \* the param_dict core.write_config is called with
    cfile,      \* the config file: on disk or not, handle open or not, lines
    cfgPc,      \* "start", then "written" or "raised" by core.write_config
    rlines,     \* the lines of a result file given to both result parsers
    rsingle,    \* what core.read_results returned for rlines, if called
    rmulti,     \* what read_multicomponentresults returned for rlines, if called
    mtree,      \* the MultiComponentModel object (the build-time tree)
    mOp,        \* the last call on the build-time tree
    mErr,       \* TRUE iff the last call on the build-time tree raised
    mfile,      \* the config file write_multicomponentconfig wrote
    mPc,        \* "idle", "build", then "written" or "raised"
    cmodel,     \* a Model under set_comp_param calls
    cArgs,      \* the arguments that Model was constructed with
    cPrev,      \* cmodel just before the last call
    cOp,        \* the last call on cmodel, with its arguments
    cErr,       \* TRUE iff the last call on cmodel raised
    cCalls      \* the number of set_comp_param calls made

parVars == <<par, parPrev, parOp, parErr, ctorBoth, parRejected>>

treeVars == <<rtree, tOp, tErr, tArgs, image>>

parseVars == <<text, parsed>>

fitVars == <<model, config, outText, results, fitPc>>

cfgVars == <<paramDict, cfile, cfgPc>>

readVars == <<rlines, rsingle, rmulti>>

buildVars == <<mtree, mOp, mErr, mfile, mPc>>

modelVars == <<cmodel, cArgs, cPrev, cOp, cErr, cCalls>>

vars == <<parVars, treeVars, parseVars, fitVars, cfgVars, readVars, buildVars, modelVars>>

\* the variables of the other subsystems, per subsystem
exceptPar == <<treeVars, parseVars, fitVars, cfgVars, readVars, buildVars, modelVars>>

exceptTree == <<parVars, parseVars, fitVars, cfgVars, readVars, buildVars, modelVars>>

exceptParse == <<parVars, treeVars, fitVars, cfgVars, readVars, buildVars, modelVars>>

exceptFit == <<parVars, treeVars, parseVars, cfgVars, readVars, buildVars, modelVars>>

exceptCfg == <<parVars, treeVars, parseVars, fitVars, readVars, buildVars, modelVars>>

exceptRead == <<parVars, treeVars, parseVars, fitVars, cfgVars, buildVars, modelVars>>

exceptBuild == <<parVars, treeVars, parseVars, fitVars, cfgVars, readVars, modelVars>>

exceptModel == <<parVars, treeVars, parseVars, fitVars, cfgVars, readVars, buildVars>>

None == <<>>

Some(v) == <<v>>

\* largest number a caller passes as a value, a bound or an offset
MaxVal == 3

Vals == 0..MaxVal

OptVals == {None} \cup {Some(v) : v \in Vals}

\* the elements of a list
SeqSetOf(q) == {q[i] : i \in 1..Len(q)}

\* the empty dict
EmptyMap == [k \in {} |-> 0]

\* d[k] = v on a dict
Put(d, k, v) == [x \in DOMAIN d \cup {k} |-> IF x = k THEN v ELSE d[x]]

\* the idle values of the subsystems a specification does not run
IdleParam ==
    /\ par = [value |-> 0, vmin |-> None, vmax |-> None,
              fixed |-> FALSE, rel |-> FALSE]
    /\ parPrev = par
    /\ parOp = "idle"
    /\ parErr = FALSE
    /\ ctorBoth = FALSE
    /\ parRejected = FALSE

----------------------------------------------------------------------------
(* Param, model.py lines 166-238 *)

\* value.setter: the range is asserted only when both bounds are set
SetValue(p, val) ==
    IF p.vmin # None /\ p.vmax # None /\ ~(val >= p.vmin[1] /\ val <= p.vmax[1])
    THEN [p |-> p, ok |-> FALSE]
    ELSE [p |-> [p EXCEPT !.value = val], ok |-> TRUE]

\* vmin.setter: assert val <= self.value
SetVmin(p, val) ==
    IF ~(val <= p.value)
    THEN [p |-> p, ok |-> FALSE]
    ELSE [p |-> [p EXCEPT !.vmin = Some(val)], ok |-> TRUE]

\* vmax.setter: assert val >= self.value
SetVmax(p, val) ==
    IF ~(val >= p.value)
    THEN [p |-> p, ok |-> FALSE]
    ELSE [p |-> [p EXCEPT !.vmax = Some(val)], ok |-> TRUE]

\* fixed.setter: a true flag clears both bounds
SetFixed(p, val) ==
    IF val
    THEN [p EXCEPT !.fixed = TRUE, !.vmin = None, !.vmax = None]
    ELSE [p EXCEPT !.fixed = FALSE]

\* self.vmin, self.vmax = lo, hi: two setter calls in this order
SetBounds(p, lo, hi) ==
    LET r1 == SetVmin(p, lo)
    IN  IF ~r1.ok THEN r1 ELSE SetVmax(r1.p, hi)

\* set_lim: clears fixed, converts offsets in relative mode, then assigns
\* vmin and vmax one after the other
SetLim(p, a, b) ==
    LET p1 == SetFixed(p, FALSE)
        lo == IF p1.rel THEN p1.value - a ELSE a
        hi == IF p1.rel THEN p1.value + b ELSE b
    IN  SetBounds(p1, lo, hi)

\* Python truthiness of an optional number: not None and not 0
Truthy(o) == o # None /\ o[1] # 0

\* Param.__init__
ParamInit(value, vmin, vmax, fixed, rel) ==
    LET p0 == [value |-> value, vmin |-> None, vmax |-> None,
               fixed |-> fixed, rel |-> rel]
    IN  IF rel /\ Truthy(vmin) /\ Truthy(vmax)
        THEN SetBounds(p0, value - vmin[1], value + vmax[1])
        ELSE IF vmin # None /\ vmax # None
             THEN SetBounds(p0, vmin[1], vmax[1])
             ELSE [p |-> p0, ok |-> TRUE]

\* the fields a rejected call must leave alone
Fields(p) == <<p.value, p.vmin, p.vmax, p.fixed>>

BothSet(p) == p.vmin # None /\ p.vmax # None

InRange(p) == p.vmin[1] <= p.value /\ p.value <= p.vmax[1]

ParamStart ==
    \E value \in Vals, vmin \in OptVals, vmax \in OptVals,
       fixed \in BOOLEAN, rel \in BOOLEAN :
        LET r == ParamInit(value, vmin, vmax, fixed, rel)
        IN  /\ r.ok
            /\ par = r.p
            /\ parPrev = r.p
            /\ parOp = "init"
            /\ parErr = FALSE
            /\ ctorBoth = BothSet(r.p)
            /\ parRejected = FALSE

ParCall(op, r) ==
    /\ par' = r.p
    /\ parPrev' = par
    /\ parOp' = op
    /\ parErr' = ~r.ok
    /\ parRejected' = (parRejected \/ ~r.ok)
    /\ UNCHANGED ctorBoth
    /\ UNCHANGED <<exceptPar>>

DoSetValue == \E v \in Vals : ParCall("value", SetValue(par, v))

DoSetVmin == \E v \in Vals : ParCall("vmin", SetVmin(par, v))

DoSetVmax == \E v \in Vals : ParCall("vmax", SetVmax(par, v))

DoSetFixed ==
    \E b \in BOOLEAN : ParCall("fixed", [p |-> SetFixed(par, b), ok |-> TRUE])

DoSetLim == \E a \in Vals, b \in Vals : ParCall("set_lim", SetLim(par, a, b))

ParamStep ==
    \/ DoSetValue
    \/ DoSetVmin
    \/ DoSetVmax
    \/ DoSetFixed
    \/ DoSetLim

----------------------------------------------------------------------------
(* The result tree, multicomponent.py lines 69-93 and 131-160 *)

\* positions and position errors add_object is called with
PosVals == {1, 2}

PosErrs == {1}

\* values and errors add_parameter is called with
ParVals == {1, 2}

ParErrs == {3}

FuncNames == {"Sersic"}

TreeParNames == {"PA"}

\* bound on the size of the tree: objects plus components
MaxNodes == 4

\* ResultContainer.__init__: X0_err and Y0_err are assigned X0 and Y0
ResultContainer_init(object_number, X0, X0_err, Y0, Y0_err) ==
    [object_number |-> object_number,
     X0 |-> X0, X0_err |-> X0, Y0 |-> Y0, Y0_err |-> Y0,
     ncomponents |-> 0, component_nests |-> EmptyMap]

\* ResultContainer.add_function
ResultContainer_add_function(c, funcname) ==
    LET params == [k \in {"X0", "X0_err", "Y0", "Y0_err"} |->
                     CASE k = "X0" -> c.X0
                       [] k = "X0_err" -> c.X0_err
                       [] k = "Y0" -> c.Y0
                       [] k = "Y0_err" -> c.Y0_err]
    IN  [c EXCEPT !.component_nests =
                      Put(@, c.ncomponents, [func |-> funcname, params |-> params]),
                  !.ncomponents = @ + 1]

\* ResultContainer.add_parameter; a missing key raises KeyError
ResultContainer_add_parameter(c, name, param, param_err, component_number) ==
    LET cn == IF component_number = None THEN c.ncomponents
              ELSE component_number[1]
    IN  IF cn \notin DOMAIN c.component_nests
        THEN [c |-> c, ok |-> FALSE]
        ELSE [c |-> [c EXCEPT !.component_nests[cn].params =
                         Put(Put(@, name, param), name \o "_err", param_err)],
              ok |-> TRUE]

\* MultiComponentResults.__init__
Results_init ==
    [config_tree |-> EmptyMap, nobjects |-> 0, fit |-> TRUE,
     reduced_chisq |-> None]

\* MultiComponentResults.add_object
Results_add_object(t, x0, x0_err, y0, y0_err) ==
    [t EXCEPT !.config_tree =
                  Put(@, t.nobjects,
                      ResultContainer_init(t.nobjects, x0, x0_err, y0, y0_err)),
              !.nobjects = @ + 1]

\* MultiComponentResults.add_function; a missing object raises KeyError
Results_add_function(t, objnumber, funcname) ==
    IF objnumber \notin DOMAIN t.config_tree
    THEN [t |-> t, ok |-> FALSE]
    ELSE [t |-> [t EXCEPT !.config_tree[objnumber] =
                     ResultContainer_add_function(@, funcname)],
          ok |-> TRUE]

\* MultiComponentResults.add_parameter
Results_add_parameter(t, objnumber, component_number, name, param, param_err) ==
    IF objnumber \notin DOMAIN t.config_tree
    THEN [t |-> t, ok |-> FALSE]
    ELSE LET r == ResultContainer_add_parameter(t.config_tree[objnumber], name,
                      param, param_err, component_number)
         IN  [t |-> [t EXCEPT !.config_tree[objnumber] = r.c], ok |-> r.ok]

\* CLASS_NAMES: the forms that have a profile class
CLASS_NAMES == {"Sersic"}

\* the pixels of a grid of shape (rows, columns)
Cells(shape) == (1..shape[1]) \X (1..shape[2])

\* np.zeros(shape)
Zeros(shape) == [c \in Cells(shape) |-> 0]

\* Sersic(params).array(shape), a point-like profile: the amplitude of the
\* component (1 plus its PA, when it has one) in the pixel of its center and
\* 0 in every other pixel
Sersic_array(params, shape) ==
    [c \in Cells(shape) |->
        IF c[2] = params["X0"] /\ c[1] = params["Y0"]
        THEN 1 + (IF "PA" \in DOMAIN params THEN params["PA"] ELSE 0)
        ELSE 0]

\* ovlmodel += model.array(shape)
AddGrids(a, b) == [c \in DOMAIN a |-> a[c] + b[c]]

\* (mutant) a form without a profile class is passed over
Dispatch_Skip(funcname, params, shape) ==
    [ok |-> TRUE,
     grid |-> IF funcname \in CLASS_NAMES THEN Sersic_array(params, shape)
              ELSE Zeros(shape)]

\* CLASS_NAMES[funcname](params).array(shape): KeyError for a form that is
\* not in CLASS_NAMES
Dispatch(funcname, params, shape) ==
    IF funcname \in CLASS_NAMES
    THEN [ok |-> TRUE, grid |-> Sersic_array(params, shape)]
    ELSE [ok |-> FALSE, grid |-> Zeros(shape)]

\* array: for cid in range(cobj.ncomponents), from cid on
RECURSIVE ArrayComponentsFrom(_, _, _, _)
ArrayComponentsFrom(cobj, cid, shape, ovlmodel) ==
    IF cid >= cobj.ncomponents THEN [ok |-> TRUE, grid |-> ovlmodel]
    ELSE LET comp == cobj.component_nests[cid]
             r == Dispatch(comp.func, comp.params, shape)
         IN  IF ~r.ok THEN [ok |-> FALSE, grid |-> ovlmodel]
             ELSE ArrayComponentsFrom(cobj, cid + 1, shape,
                                      AddGrids(ovlmodel, r.grid))

\* array: for oid in range(self.nobjects), from oid on
RECURSIVE ArrayObjectsFrom(_, _, _, _)
ArrayObjectsFrom(t, oid, shape, ovlmodel) ==
    IF oid >= t.nobjects THEN [ok |-> TRUE, grid |-> ovlmodel]
    ELSE LET r == ArrayComponentsFrom(t.config_tree[oid], 0, shape, ovlmodel)
         IN  IF ~r.ok THEN r
             ELSE ArrayObjectsFrom(t, oid + 1, shape, r.grid)

\* MultiComponentResults.array
array(t, shape) == ArrayObjectsFrom(t, 0, shape, Zeros(shape))

\* objects plus components of a tree
RECURSIVE SumComponents(_, _)
SumComponents(t, ks) ==
    IF ks = {} THEN 0
    ELSE LET k == CHOOSE x \in ks : TRUE
         IN  t.config_tree[k].ncomponents + SumComponents(t, ks \ {k})

Nodes(t) == Cardinality(DOMAIN t.config_tree) + SumComponents(t, DOMAIN t.config_tree)

NoCall == [call |-> "none", obj |-> 0, comp |-> None, name |-> "", args |-> <<>>]

TreeIdle ==
    /\ rtree = Results_init
    /\ tOp = NoCall
    /\ tErr = FALSE
    /\ tArgs = EmptyMap
    /\ image = None

TreeStart == TreeIdle

DoAddObject ==
    \E x0 \in PosVals, x0_err \in PosErrs, y0 \in PosVals, y0_err \in PosErrs :
        /\ Nodes(rtree) + Nodes(mtree) < MaxNodes
        /\ rtree' = Results_add_object(rtree, x0, x0_err, y0, y0_err)
        /\ tOp' = [NoCall EXCEPT !.call = "add_object", !.obj = rtree.nobjects,
                                 !.args = <<x0, x0_err, y0, y0_err>>]
        /\ tErr' = FALSE
        /\ tArgs' = Put(tArgs, rtree.nobjects, <<x0, x0_err, y0, y0_err>>)
        /\ image' = None
        /\ UNCHANGED <<exceptTree>>

\* object and component numbers a caller passes, the absent ones included
ObjNumbers == -1..(rtree.nobjects)

CompNumbers(o) ==
    {None} \cup {Some(i) : i \in -1..(IF o \in DOMAIN rtree.config_tree
                                       THEN rtree.config_tree[o].ncomponents
                                       ELSE 0)}

DoAddFunction ==
    \E o \in ObjNumbers, f \in FuncNames :
        LET r == Results_add_function(rtree, o, f)
        IN  /\ Nodes(rtree) + Nodes(mtree) < MaxNodes
            /\ rtree' = r.t
            /\ tOp' = [NoCall EXCEPT !.call = "add_function", !.obj = o, !.name = f]
            /\ tErr' = ~r.ok
            /\ image' = None
            /\ UNCHANGED <<tArgs, exceptTree>>

DoAddParameter ==
    \E o \in ObjNumbers : \E c \in CompNumbers(o), n \in TreeParNames,
                              v \in ParVals, e \in ParErrs :
        LET r == Results_add_parameter(rtree, o, c, n, v, e)
        IN  /\ rtree' = r.t
            /\ tOp' = [NoCall EXCEPT !.call = "add_parameter", !.obj = o,
                                     !.comp = c, !.name = n, !.args = <<v, e>>]
            /\ tErr' = ~r.ok
            /\ image' = None
            /\ UNCHANGED <<tArgs, exceptTree>>

TreeStep ==
    \/ DoAddObject
    \/ DoAddFunction
    \/ DoAddParameter

\* forms add_function is called with where array follows: one with a
\* profile class and one without
ArrayFuncs == {"Sersic", "Gaussian"}

\* largest side of the grid array is called for
MaxSide == 2

ArrayShapes == (1..MaxSide) \X (1..MaxSide)

\* mcres.add_function(objnumber, funcname) with any form imfit may name
DoAddAnyFunction ==
    /\ Nodes(rtree) + Nodes(mtree) < MaxNodes
    /\ \E o \in ObjNumbers, f \in ArrayFuncs :
          LET r == Results_add_function(rtree, o, f)
          IN  /\ rtree' = r.t
              /\ tOp' = [NoCall EXCEPT !.call = "add_function", !.obj = o,
                                       !.name = f]
              /\ tErr' = ~r.ok
    /\ image' = None
    /\ UNCHANGED <<tArgs, exceptTree>>

\* mcres.array(shape)
DoArray ==
    /\ tOp.call # "array"
    /\ \E shape \in ArrayShapes :
          LET r == array(rtree, shape)
          IN  /\ tErr' = ~r.ok
              /\ image' = IF r.ok THEN Some(r.grid) ELSE None
              /\ tOp' = [NoCall EXCEPT !.call = "array", !.args = shape]
    /\ UNCHANGED <<rtree, tArgs, exceptTree>>

ArrayStep ==
    \/ DoAddObject
    \/ DoAddAnyFunction
    \/ DoAddParameter
    \/ DoArray

----------------------------------------------------------------------------
(* read_multicomponentresults, core.py lines 249-298 *)

(* A line of result text is a record of what the parser looks at:          *)
(*   kind  which line of the grammar it is (blank, comment, X0, Y0,        *)
(*         FUNCTION, parameter)                                            *)
(*   name  its first token (the second token of a comment, the form name   *)
(*         of a FUNCTION line)                                             *)
(*   val   its second token as a number, err its last token as a number    *)
(*   ntok  the length of line.split()                                      *)
(*   num   whether the last token reads as a number                        *)
BlankLine ==
    [kind |-> "blank", name |-> "", val |-> 0, err |-> 0, ntok |-> 0, num |-> FALSE]

\* "# text"
CommentLine ==
    [kind |-> "comment", name |-> "text", val |-> 0, err |-> 0, ntok |-> 2, num |-> FALSE]

\* "#"
BareCommentLine ==
    [kind |-> "comment", name |-> "", val |-> 0, err |-> 0, ntok |-> 1, num |-> FALSE]

\* "# Reduced Chi^2 = <chisq>"
ReducedLine(chisq) ==
    [kind |-> "comment", name |-> "Reduced", val |-> 0, err |-> chisq, ntok |-> 5, num |-> TRUE]

\* "X0 <val> # +/- <err>" and the same for Y0 and for a parameter
ValueLine(kind, name, val, err) ==
    [kind |-> kind, name |-> name, val |-> val, err |-> err, ntok |-> 5, num |-> TRUE]

\* "FUNCTION <name>"
FunctionLine(name) ==
    [kind |-> "func", name |-> name, val |-> 0, err |-> 0, ntok |-> 2, num |-> FALSE]

\* len(line.split())
NTokens(l) == l.ntok

\* line[0] == '#'
StartsWithHash(l) == l.kind = "comment"

\* 'X0' in line
ContainsX0(l) == l.kind = "X0"

\* re.match("FUNCTION .*", line)
MatchesFunction(l) == l.kind = "func"

\* re.findall("(?<=FUNCTION ).*", line): the form names found
FindFunction(l) == IF l.kind = "func" THEN <<l.name>> ELSE <<>>

\* __parse_line: IndexError unless the line has 5 tokens; ValueError when
\* the second or the last token is no number (as in every comment here)
parse_line(l) ==
    IF NTokens(l) # 5 \/ ~l.num \/ l.kind = "comment"
    THEN [ok |-> FALSE, name |-> "", value |-> 0, error |-> 0]
    ELSE [ok |-> TRUE, name |-> l.name, value |-> l.val, error |-> l.err]

\* the reduced chi^2 read from the comments: raises on a comment with one
\* token, on no Reduced comment and on a last token that is no number
ReadReducedChisq(lines) ==
    LET comments == SelectSeq(lines, StartsWithHash)
        IsReduced(c) == c.name = "Reduced"
        reduced == SelectSeq(comments, IsReduced)
    IN  IF \E i \in 1..Len(comments) : NTokens(comments[i]) < 2
        THEN [ok |-> FALSE, value |-> None]
        ELSE IF reduced = <<>> \/ ~reduced[1].num
             THEN [ok |-> FALSE, value |-> None]
             ELSE [ok |-> TRUE, value |-> Some(reduced[1].err)]

ParseFailed == [ok |-> FALSE, t |-> Results_init]

\* (mutant) a parameter line goes to the first component of the object
ParLineComponent_First(t) == 0

\* the component a parameter line is added to
ParLineComponent(t) == t.config_tree[t.nobjects - 1].ncomponents - 1

\* the while loop of read_multicomponentresults from line i on
RECURSIVE ParseFrom(_, _, _)
ParseFrom(lines, i, t) ==
    IF ~(i <= Len(lines)) THEN [ok |-> TRUE, t |-> t]
    ELSE IF NTokens(lines[i]) = 0 THEN ParseFrom(lines, i + 1, t)
    ELSE IF StartsWithHash(lines[i]) THEN ParseFrom(lines, i + 1, t)
    ELSE IF ContainsX0(lines[i])
         THEN IF i + 2 > Len(lines) THEN ParseFailed
              ELSE LET x == parse_line(lines[i])
                       y == parse_line(lines[i + 1])
                       f == FindFunction(lines[i + 2])
                   IN  IF ~x.ok \/ ~y.ok \/ f = <<>> THEN ParseFailed
                       ELSE LET t1 == Results_add_object(t, x.value, x.error,
                                                         y.value, y.error)
                                r == Results_add_function(t1, t1.nobjects - 1, f[1])
                            IN  IF r.ok THEN ParseFrom(lines, i + 3, r.t)
                                ELSE ParseFailed
    ELSE IF MatchesFunction(lines[i])
         THEN LET r == Results_add_function(t, t.nobjects - 1,
                                            FindFunction(lines[i])[1])
              IN  IF r.ok THEN ParseFrom(lines, i + 1, r.t) ELSE ParseFailed
    ELSE IF (t.nobjects - 1) \notin DOMAIN t.config_tree THEN ParseFailed
         ELSE LET p == parse_line(lines[i])
                  r == Results_add_parameter(t, t.nobjects - 1,
                           Some(ParLineComponent(t)), p.name, p.value, p.error)
              IN  IF p.ok /\ r.ok THEN ParseFrom(lines, i + 1, r.t)
                  ELSE ParseFailed

read_multicomponentresults(lines) ==
    LET c == ReadReducedChisq(lines)
    IN  IF ~c.ok THEN ParseFailed
        ELSE ParseFrom(lines, 1, [Results_init EXCEPT !.reduced_chisq = c.value])

\* the texts read_multicomponentresults is run on: a Reduced comment, then
\* blocks of X0, Y0, FUNCTION, parameter lines and further FUNCTION lines,
\* with at most MaxNoise comments and blank lines anywhere between them
MaxLines == 7

MaxNoise == 1

ParseFuncs == {"Sersic", "Gaussian"}

ParseParNames == {"PA"}

ChisqVals == {7}

IsNoise(l) == l.kind \in {"blank", "comment"}

IsSig(l) == ~IsNoise(l)

Sig(lines) == SelectSeq(lines, IsSig)

Noise(lines) == SelectSeq(lines, IsNoise)

\* the kind of the last line that is neither blank nor comment
LastKind(lines) ==
    IF Sig(lines) = <<>> THEN "start" ELSE Sig(lines)[Len(Sig(lines))].kind

\* the lines that may follow, by the grammar of the result text
NextLines(lines) ==
    LET i == Len(lines) + 1
        k == LastKind(lines)
    IN  CASE k = "start" -> {ValueLine("X0", "X0", i, 100 + i)}
          [] k = "X0" -> {ValueLine("Y0", "Y0", i, 100 + i)}
          [] k = "Y0" -> {FunctionLine(f) : f \in ParseFuncs}
          [] OTHER -> {ValueLine("X0", "X0", i, 100 + i)}
                      \cup {FunctionLine(f) : f \in ParseFuncs}
                      \cup {ValueLine("param", n, i, 100 + i) : n \in ParseParNames}

NoiseLines == {BlankLine, CommentLine, BareCommentLine}

\* the text is whole: no block is cut short after its X0 or Y0 line
Complete(lines) == LastKind(lines) \in {"start", "func", "param"}

NotParsed == [done |-> FALSE, ok |-> FALSE, t |-> Results_init]

ParseIdle ==
    /\ text = <<>>
    /\ parsed = NotParsed

ParseStart ==
    /\ \E c \in ChisqVals : text = <<ReducedLine(c)>>
    /\ parsed = NotParsed

AppendLine ==
    /\ ~parsed.done
    /\ Len(Sig(text)) < MaxLines
    /\ \E l \in NextLines(text) : text' = Append(text, l)
    /\ UNCHANGED <<parsed, exceptParse>>

AppendNoise ==
    /\ ~parsed.done
    /\ Len(Noise(text)) < 1 + MaxNoise
    /\ \E l \in NoiseLines : text' = Append(text, l)
    /\ UNCHANGED <<parsed, exceptParse>>

ParseText ==
    /\ ~parsed.done
    /\ Complete(text)
    /\ LET r == read_multicomponentresults(text)
       IN  parsed' = [done |-> TRUE, ok |-> r.ok, t |-> r.t]
    /\ UNCHANGED <<text, exceptParse>>

ParseStep ==
    \/ AppendLine
    \/ AppendNoise
    \/ ParseText

----------------------------------------------------------------------------
(* Model and ModelComponent, model.py lines 15-163 and 241-306 *)

(* Numbers of the default tables are in hundredths (0.2 is 20), so that    *)
(* they are integers; a parameter spec is a record                         *)
(*   [list, items, tag]: a bare number v is [FALSE, <<v>>, FALSE], a list  *)
(*   of numbers is [TRUE, items, FALSE] and [v, 'fixed'] is                *)
(*   [TRUE, <<v>>, TRUE] (tag stands for the trailing string).             *)
ScalarSpec(v) == [list |-> FALSE, items |-> <<v>>, tag |-> FALSE]

ListSpec(items) == [list |-> TRUE, items |-> items, tag |-> FALSE]

FixedSpec(v) == [list |-> TRUE, items |-> <<v>>, tag |-> TRUE]

\* None as a parameter spec
NoneSpec == [list |-> FALSE, items |-> <<>>, tag |-> FALSE]

IsNoneSpec(v) == ~v.list /\ v.items = <<>>

\* len() of a list spec
SpecLen(lims) == Len(lims.items) + (IF lims.tag THEN 1 ELSE 0)

\* param_names
PARAM_NAMES ==
    [f \in {"Sersic", "Sersic_GenEllipse", "Gaussian", "GaussianRing", "FlatSky",
            "Exponential", "EdgeOnDisk", "BrokenExponential", "Moffat",
            "ModifiedKing", "PointSource"} |->
        CASE f = "Sersic" -> <<"PA", "ell", "n", "I_e", "r_e">>
          [] f = "Sersic_GenEllipse" -> <<"PA", "ell", "c0", "n", "I_e", "r_e">>
          [] f = "Gaussian" -> <<"PA", "ell", "I_0", "sigma">>
          [] f = "GaussianRing" -> <<"PA", "ell", "A", "R_ring", "sigma_r">>
          [] f = "FlatSky" -> <<"I_sky">>
          [] f = "Exponential" -> <<"PA", "ell", "I_0", "h">>
          [] f = "EdgeOnDisk" -> <<"PA", "L_0", "h", "n", "z_0">>
          [] f = "BrokenExponential" ->
                 <<"PA", "ell", "I_0", "h1", "h2", "r_break", "alpha">>
          [] f = "Moffat" -> <<"PA", "ell", "I_0", "fwhm", "beta">>
          [] f = "ModifiedKing" -> <<"PA", "ell", "I_0", "r_c", "r_t", "alpha">>
          [] f = "PointSource" -> <<"I_tot">>]

\* default_params: per form, per parameter in the order of the OrderedDict,
\* [value, min, max] in hundredths
DEFAULT_VALUES ==
    [f \in DOMAIN PARAM_NAMES |->
        CASE f = "Sersic" ->
                 << <<2000, 0, 36000>>, <<20, 0, 99>>, <<100, 1, 500>>,
                    <<5, 0, 100000>>, <<2000, 0, 500000>> >>
          [] f = "Sersic_GenEllipse" ->
                 << <<2000, 0, 36000>>, <<20, 0, 99>>, <<0, -20, 20>>,
                    <<100, 1, 500>>, <<5, 0, 100000>>, <<2000, 0, 500000>> >>
          [] f = "Gaussian" ->
                 << <<2000, 0, 36000>>, <<20, 0, 99>>, <<100, 1, 500>>,
                    <<10, 1, 100>> >>
          [] f = "GaussianRing" ->
                 << <<2000, 0, 36000>>, <<20, 0, 99>>, <<100, 1, 500>>,
                    <<200, 10, 1000>>, <<100, 20, 500>> >>
          [] f = "FlatSky" -> << <<0, -500, 500>> >>
          [] f = "Exponential" ->
                 << <<2000, 0, 36000>>, <<20, 0, 99>>, <<5, 0, 100000>>,
                    <<2000, 0, 500000>> >>
          [] f = "EdgeOnDisk" ->
                 << <<2000, 0, 36000>>, <<5, 0, 100000>>, <<2000, 0, 500000>>,
                    <<200, 100, 10000>>, <<200, 100, 10000>> >>
          [] f = "BrokenExponential" ->
                 << <<2000, 0, 36000>>, <<20, 0, 99>>, <<5, 0, 100000>>,
                    <<400, 0, 500000>>, <<800, 0, 500000>>,
                    <<2000, 0, 500000>>, <<100, 50, 500>> >>
          [] f = "Moffat" ->
                 << <<2000, 0, 36000>>, <<20, 0, 99>>, <<100, 1, 500>>,
                    <<20, 1, 1000>>, <<200, 10, 500>> >>
          [] f = "ModifiedKing" ->
                 << <<2000, 0, 36000>>, <<20, 0, 99>>, <<100, 1, 500>>,
                    <<20, 1, 1000>>, <<200, 10, 2000>>, <<200, 100, 500>> >>
          [] f = "PointSource" -> << <<100, 1, 500>> >>]

\* default_params[name] as a mapping from parameter name to its spec
default_params(f) ==
    [k \in {PARAM_NAMES[f][i] : i \in 1..Len(PARAM_NAMES[f])} |->
        LET i == CHOOSE j \in 1..Len(PARAM_NAMES[f]) : PARAM_NAMES[f][j] = k
        IN  ListSpec(DEFAULT_VALUES[f][i])]

\* (mutant) a list of 2 elements is read as a bare value
parse_limits_NeverFixed(lims) ==
    IF lims.list /\ SpecLen(lims) = 3 /\ ~lims.tag
    THEN [ok |-> TRUE, val |-> lims.items[1], vmin |-> Some(lims.items[2]),
          vmax |-> Some(lims.items[3]), fixed |-> FALSE]
    ELSE [ok |-> lims.items # <<>>, val |-> IF lims.items # <<>> THEN lims.items[1] ELSE 0,
          vmin |-> None, vmax |-> None, fixed |-> FALSE]

\* _parse_limits: a list of a length other than 2 or 3 leaves val unbound
\* and the return raises
parse_limits(lims) ==
    IF lims.list
    THEN IF SpecLen(lims) = 3 /\ ~lims.tag
         THEN [ok |-> TRUE, val |-> lims.items[1], vmin |-> Some(lims.items[2]),
               vmax |-> Some(lims.items[3]), fixed |-> FALSE]
         ELSE IF SpecLen(lims) = 2
              THEN [ok |-> TRUE, val |-> lims.items[1], vmin |-> None,
                    vmax |-> None, fixed |-> TRUE]
              ELSE [ok |-> FALSE, val |-> 0, vmin |-> None, vmax |-> None,
                    fixed |-> FALSE]
    ELSE [ok |-> TRUE, val |-> lims.items[1], vmin |-> None, vmax |-> None,
          fixed |-> FALSE]

\* Param(name, *_parse_limits(v)): the Param with its name, or a failure
MakeParam(name, lims, rel) ==
    LET l == parse_limits(lims)
        r == ParamInit(l.val, l.vmin, l.vmax, l.fixed, rel)
    IN  IF ~l.ok \/ ~r.ok THEN [ok |-> FALSE, p |-> None]
        ELSE [ok |-> TRUE,
              p |-> Some([name |-> name, value |-> r.p.value, vmin |-> r.p.vmin,
                          vmax |-> r.p.vmax, fixed |-> r.p.fixed, rel |-> r.p.rel])]

\* _check_kwargs_defaults: the defaults with every entry of kwargs that is
\* not None over them; v[0] of an empty list raises IndexError
check_kwargs_defaults(kwargs, defaults) ==
    LET given == {k \in DOMAIN kwargs : ~IsNoneSpec(kwargs[k])}
    IN  IF \E k \in DOMAIN kwargs : kwargs[k].list /\ SpecLen(kwargs[k]) = 0
        THEN [ok |-> FALSE, kw |-> defaults]
        ELSE [ok |-> TRUE,
              kw |-> [k \in DOMAIN defaults \cup given |->
                         IF k \in given THEN kwargs[k] ELSE defaults[k]]]

\* ModelComponent.__init__: params is a dict of overrides (empty for None),
\* center is <<>> or a pair of specs, rel is the relative_limits of kwargs;
\* every key of init_pars becomes a Param of the component
ModelComponent_new(name, params, center, rel) ==
    LET init == IF params # EmptyMap
                THEN check_kwargs_defaults(params, default_params(name))
                ELSE [ok |-> TRUE, kw |-> default_params(name)]
        init_pars == init.kw
        made == [k \in DOMAIN init_pars |-> MakeParam(k, init_pars[k], rel)]
        x == IF center # <<>> THEN MakeParam("X0", center[1], rel)
             ELSE [ok |-> TRUE, p |-> None]
        y == IF center # <<>> THEN MakeParam("Y0", center[2], rel)
             ELSE [ok |-> TRUE, p |-> None]
    IN  [ok |-> init.ok /\ (\A k \in DOMAIN made : made[k].ok) /\ x.ok /\ y.ok,
         c |-> [name |-> name, param_names |-> PARAM_NAMES[name],
                params |-> [k \in DOMAIN made |-> made[k].p],
                X0 |-> x.p, Y0 |-> y.p]]

\* ModelComponent.__init__ with params None (the defaults) and no kwargs
ModelComponent_init(name, center) ==
    ModelComponent_new(name, EmptyMap, center, FALSE)

\* one pixel in the units of the centers, which are half pixels
OnePixel == 2

\* the center handed to ModelComponent: [pos, min, pos + dcent] per axis,
\* min being pos - dcent if that is above 0 and else 1, or [pos, 'fixed']
\* when dcent is 'fixed' (None here) or 0
ExpandCenter(center, dcent) ==
    IF center = <<>> THEN <<>>
    ELSE IF dcent # None /\ dcent[1] # 0
         THEN LET d == dcent[1]
                  min_x == IF center[1] - d > 0 THEN center[1] - d ELSE OnePixel
                  min_y == IF center[2] - d > 0 THEN center[2] - d ELSE OnePixel
              IN  << ListSpec(<<center[1], min_x, center[1] + d>>),
                     ListSpec(<<center[2], min_y, center[2] + d>>) >>
         ELSE << FixedSpec(center[1]), FixedSpec(center[2]) >>

Min(a, b) == IF a <= b THEN a ELSE b

\* Model.__init__ on lists funcs, params and centers: ncomp is len(funcs),
\* one component per element of zip(funcs, params, centers)
Model_new(funcs, params, centers, dcent, rel) ==
    LET n == Min(Min(Len(funcs), Len(params)), Len(centers))
        made == [i \in 1..n |->
                    ModelComponent_new(funcs[i], params[i],
                                       ExpandCenter(centers[i], dcent), rel)]
    IN  [ok |-> \A i \in 1..n : made[i].ok,
         m |-> [funcs |-> funcs, ncomp |-> Len(funcs),
                comps |-> [i \in 1..n |-> made[i].c]]]

\* Model.__init__ with params all None and no kwargs
Model_init(funcs, centers, dcent) ==
    Model_new(funcs, [i \in 1..Len(funcs) |-> EmptyMap], centers, dcent, FALSE)

\* ModelComponent.set_param: the assert on the name, _parse_limits, Param,
\* setattr
set_param(c, name, value, rel) ==
    IF name \notin SeqSetOf(c.param_names) \cup {"X0", "Y0"}
    THEN [ok |-> FALSE, c |-> c]
    ELSE LET r == MakeParam(name, value, rel)
         IN  IF ~r.ok THEN [ok |-> FALSE, c |-> c]
             ELSE [ok |-> TRUE,
                   c |-> CASE name = "X0" -> [c EXCEPT !.X0 = r.p]
                           [] name = "Y0" -> [c EXCEPT !.Y0 = r.p]
                           [] OTHER -> [c EXCEPT !.params = Put(@, name, r.p)]]

\* Model.set_comp_param: getattr raises when comp_<comp_num> does not exist
set_comp_param(m, comp_num, param, value, rel) ==
    IF comp_num \notin DOMAIN m.comps THEN [ok |-> FALSE, m |-> m]
    ELSE LET r == set_param(m.comps[comp_num], param, value, rel)
         IN  [ok |-> r.ok, m |-> [m EXCEPT !.comps[comp_num] = r.c]]

(* Model.__init__ on the caller's own objects. A Python value is a tagged  *)
(* tuple: <<"none">>, <<"num", n>>, <<"str", s>>, <<"dict", d>> or          *)
(* <<"list", items>> with items a sequence of Python values. A list the    *)
(* constructor assigns into is the caller's list, so the operators return  *)
(* it as it is after the call.                                             *)

PyNone == <<"none">>

PyNum(n) == <<"num", n>>

PyStr(str) == <<"str", str>>

PyDict(d) == <<"dict", d>>

PyList(items) == <<"list", items>>

IsPyList(v) == v[1] = "list"

IsPyNum(v) == v[1] = "num"

\* bool(v) of a Python value
PyTruthy(v) ==
    CASE v[1] = "none" -> FALSE
      [] v[1] = "num" -> v[2] # 0
      [] v[1] = "str" -> v[2] # ""
      [] v[1] = "dict" -> v[2] # EmptyMap
      [] v[1] = "list" -> v[2] # <<>>

\* lines 293-301, the assignments into center: with a numeric dcent other
\* than 0 both min_x and min_y are computed first (TypeError when center[0]
\* or center[1] is not a number, IndexError when there is none), then
\* center[0] and center[1] are replaced; otherwise center[0] is replaced by
\* [center[0], 'fixed'] and then center[1] likewise (IndexError when there is
\* no center[1], after center[0] was replaced)
MutateCenter(center, dcent) ==
    IF ~PyTruthy(center) THEN [ok |-> TRUE, center |-> center]
    ELSE IF ~IsPyList(center) THEN [ok |-> FALSE, center |-> center]
    ELSE LET items == center[2]
         IN  IF dcent # None /\ dcent[1] # 0
             THEN IF Len(items) < 2 \/ ~IsPyNum(items[1]) \/ ~IsPyNum(items[2])
                  THEN [ok |-> FALSE, center |-> center]
                  ELSE LET d == dcent[1]
                           x == items[1][2]
                           y == items[2][2]
                           min_x == IF x - d > 0 THEN x - d ELSE OnePixel
                           min_y == IF y - d > 0 THEN y - d ELSE OnePixel
                       IN  [ok |-> TRUE,
                            center |->
                              PyList([items EXCEPT
                                  ![1] = PyList(<<PyNum(x), PyNum(min_x), PyNum(x + d)>>),
                                  ![2] = PyList(<<PyNum(y), PyNum(min_y), PyNum(y + d)>>)])]
             ELSE LET first == [items EXCEPT ![1] = PyList(<<items[1], PyStr("fixed")>>)]
                  IN  IF Len(items) < 2
                      THEN [ok |-> FALSE, center |-> PyList(first)]
                      ELSE [ok |-> TRUE,
                            center |-> PyList([first EXCEPT
                                          ![2] = PyList(<<items[2], PyStr("fixed")>>)])]

\* lines 259-264: the Param of one axis of a center the constructor has
\* assigned into, lims being [v, lo, hi] of numbers or [v, 'fixed'] of any
\* value v; its value is a Python value
CenterParam(name, lims, rel) ==
    IF Len(lims[2]) = 3
    THEN LET r == MakeParam(name, ListSpec(<<lims[2][1][2], lims[2][2][2],
                                              lims[2][3][2]>>), rel)
         IN  IF ~r.ok THEN r
             ELSE [ok |-> TRUE, p |-> Some([r.p[1] EXCEPT !.value = PyNum(@)])]
    ELSE [ok |-> TRUE,
          p |-> Some([name |-> name, value |-> lims[2][1], vmin |-> None,
                      vmax |-> None, fixed |-> TRUE, rel |-> rel])]

\* lines 259-267: the component with its X0 and Y0, r being the component
\* without them and x and y the two Params (None for no center)
WithCenter(r, x, y) ==
    [ok |-> r.ok /\ x.ok /\ y.ok, c |-> [r.c EXCEPT !.X0 = x.p, !.Y0 = y.p]]

\* ModelComponent(func, pars, center, **kwargs) on a center the constructor
\* has assigned into
ModelComponent_call(func, pars, center, rel) ==
    WithCenter(ModelComponent_new(func, IF pars = PyNone THEN EmptyMap ELSE pars[2],
                                  <<>>, rel),
               IF PyTruthy(center) THEN CenterParam("X0", center[2][1], rel)
               ELSE [ok |-> TRUE, p |-> None],
               IF PyTruthy(center) THEN CenterParam("Y0", center[2][2], rel)
               ELSE [ok |-> TRUE, p |-> None])

\* what one round of the loop leaves: whether it returned, the component
\* it set and the center as assigned into
RoundOf(r, center) == [ok |-> r.ok, c |-> r.c, center |-> center]

\* lines 302-303 of one round, mc being what the assignments into its
\* center returned
RoundWith(func, pars, mc, rel) ==
    IF ~mc.ok THEN [ok |-> FALSE, c |-> <<>>, center |-> mc.center]
    ELSE RoundOf(ModelComponent_call(func, pars, mc.center, rel), mc.center)

\* lines 293-303, one round of the loop
ModelRound(func, pars, center, dcent, rel) ==
    RoundWith(func, pars, MutateCenter(center, dcent), rel)

\* the loop given its rounds: it stops in the first round that raises, the
\* components of the rounds before it are set and the centers up to it are
\* assigned into
LoopResult(rounds, centers) ==
    LET bad == {i \in DOMAIN rounds : ~rounds[i].ok}
        stop == IF bad = {} THEN Len(rounds) + 1
                ELSE CHOOSE i \in bad : \A j \in bad : i <= j
    IN  [ok |-> bad = {},
         comps |-> [i \in 1..(stop - 1) |-> rounds[i].c],
         centers |-> [i \in 1..Len(centers) |->
                         IF i <= stop /\ i <= Len(rounds) THEN rounds[i].center
                         ELSE centers[i]]]

\* lines 291-303, the loop over zip(funcs, params, centers)
ModelLoop(funcs, params, centers, dcent, rel) ==
    LoopResult([i \in 1..Min(Min(Len(funcs), Len(params)), Len(centers)) |->
                   ModelRound(funcs[i], params[i], centers[i], dcent, rel)],
               centers)

\* a list as it is, anything else in a new list of one element
AsList(v) == IF IsPyList(v) THEN v[2] ELSE <<v>>

\* lines 288-289 and what the caller is left with: a centers that was put
\* in a new list is the one center the loop assigned into
ModelOf(funcs, r, wrapped) ==
    [ok |-> r.ok,
     m |-> [funcs |-> funcs, ncomp |-> Len(funcs), comps |-> r.comps],
     centers |-> IF wrapped THEN r.centers[1] ELSE PyList(r.centers)]

\* Model(funcs, params, centers, dcent, relative_limits=rel) on Python
\* values: the Model and the caller's centers after the call. centers[0]
\* raises for what is not a list and for an empty list; a centers whose
\* first element is not a list is itself taken as the one center.
Model_call(funcs, params, centers, dcent, rel) ==
    IF ~IsPyList(centers) \/ centers[2] = <<>>
    THEN [ok |-> FALSE, m |-> [funcs |-> <<>>, ncomp |-> 0, comps |-> <<>>],
          centers |-> centers]
    ELSE LET wrapped == ~IsPyList(centers[2][1])
             fs == [i \in 1..Len(AsList(funcs)) |-> AsList(funcs)[i][2]]
         IN  ModelOf(fs,
                     ModelLoop(fs, AsList(params),
                               IF wrapped THEN <<centers>> ELSE centers[2],
                               dcent, rel),
                     wrapped)

----------------------------------------------------------------------------
(* PymFitter.write_config and PymFitter.read_results, pymfitter.py 29-91 *)

\* Param.config_line: the name, the value and 'fixed', 'vmin,vmax' or nothing
config_line(kind, p) ==
    [kind |-> kind, name |-> p.name, val |-> p.value,
     lim |-> IF p.fixed THEN "fixed"
             ELSE IF p.vmin # None /\ p.vmax # None THEN "range" ELSE "",
     lo |-> IF ~p.fixed /\ p.vmin # None /\ p.vmax # None THEN p.vmin ELSE None,
     hi |-> IF ~p.fixed /\ p.vmin # None /\ p.vmax # None THEN p.vmax ELSE None]

\* a line of the config file that holds no Param
MarkerLine(kind, name) ==
    [kind |-> kind, name |-> name, val |-> 0, lim |-> "", lo |-> None, hi |-> None]

\* the lines write_config prints for one component
ComponentLines(comp) ==
    (IF comp.X0 # None
     THEN << MarkerLine("blank", ""), config_line("X0", comp.X0[1]),
             config_line("Y0", comp.Y0[1]) >>
     ELSE <<>>)
    \o << MarkerLine("func", comp.name) >>
    \o [j \in 1..Len(comp.param_names) |->
           config_line("param", comp.params[comp.param_names[j]][1])]

\* (mutant) every round handles comp_1
CompOfRound_First(m, i) == m.comps[1]

\* the component write_config and read_results handle in round i
CompOfRound(m, i) == m.comps[i]

\* PymFitter.write_config: the lines of comp_1..comp_ncomp in this order;
\* getattr raises when comp_i does not exist
RECURSIVE WriteFrom(_, _)
WriteFrom(m, i) ==
    IF i > m.ncomp THEN [ok |-> TRUE, lines |-> <<>>]
    ELSE IF i \notin DOMAIN m.comps THEN [ok |-> FALSE, lines |-> <<>>]
    ELSE LET rest == WriteFrom(m, i + 1)
         IN  [ok |-> rest.ok, lines |-> ComponentLines(CompOfRound(m, i)) \o rest.lines]

write_config(m) == WriteFrom(m, 1)

\* the best-fit file of the same shape as the config file: after a Reduced
\* comment, line i of the config file becomes a line of the same kind and
\* name with 5 tokens, whose value is i + 1 and whose error is i + 101
FitLine(l, i) ==
    CASE l.kind = "blank" -> BlankLine
      [] l.kind = "func" -> FunctionLine(l.name)
      [] OTHER -> ValueLine(l.kind, l.name, i + 1, i + 101)

BestFitText(lines, chisq) ==
    << CommentLine, ReducedLine(chisq) >>
    \o [i \in 1..Len(lines) |-> FitLine(lines[i], i)]

\* l[0] and l[:2] of a line
FirstChar(l) ==
    CASE l.kind = "comment" -> "#"
      [] l.kind = "blank" -> "\n"
      [] l.kind = "func" -> "F"
      [] l.kind \in {"X0", "Y0"} -> "XY"
      [] OTHER -> "p"

FirstTwo(l) ==
    CASE l.kind = "blank" -> "\n"
      [] l.kind = "X0" -> "X0"
      [] l.kind = "Y0" -> "Y0"
      [] OTHER -> "other"

IsParamText(l) ==
    /\ FirstChar(l) # "#"
    /\ FirstTwo(l) # "\n"
    /\ FirstChar(l) # "F"
    /\ FirstTwo(l) # "X0"
    /\ FirstTwo(l) # "Y0"

IsCenText(l) == FirstChar(l) # "#" /\ (FirstTwo(l) = "X0" \/ FirstTwo(l) = "Y0")

\* the lines of cen_text that centers[i] is read from (i counts from 0)
CenterLinesOf(cen_text, i) == << cen_text[i + 1], cen_text[i + 2] >>

\* centers: one [x0, y0, xerr, yerr] per two lines of cen_text; unpacking a
\* line of other than 5 tokens raises
Centers(cen_text) ==
    LET n == Len(cen_text) \div 2
    IN  [ok |-> \A i \in 0..(n - 1) :
                   /\ NTokens(CenterLinesOf(cen_text, i)[1]) = 5
                   /\ NTokens(CenterLinesOf(cen_text, i)[2]) = 5,
         list |-> [k \in 1..n |->
                     LET two == CenterLinesOf(cen_text, k - 1)
                     IN  << two[1].val, two[2].val, two[1].err, two[2].err >>]]

\* seq[i] for a Python index i, negative ones counting from the end
PyIndex(seq, i) == IF i < 0 THEN Len(seq) + i + 1 ELSE i + 1

\* the loop over comp.param_names from the j-th name on
RECURSIVE ReadPars(_, _, _, _, _)
ReadPars(comp, params, j, par_num, entry) ==
    IF j > Len(comp.param_names) THEN [ok |-> TRUE, entry |-> entry, par_num |-> par_num]
    ELSE IF par_num + 1 > Len(params) \/ NTokens(params[par_num + 1]) < 2
              \/ params[par_num + 1].name # comp.param_names[j]
         THEN [ok |-> FALSE, entry |-> entry, par_num |-> par_num]
         ELSE LET l == params[par_num + 1]
                  pname == comp.param_names[j]
              IN  ReadPars(comp, params, j + 1, par_num + 1,
                      [entry EXCEPT !.vals = Put(Put(@, pname, l.val),
                                                 pname \o "_err", l.err)])

\* the loop over the components from round i on
RECURSIVE ReadFrom(_, _, _, _, _, _, _)
ReadFrom(m, params, centers, i, par_num, cen_num, res) ==
    IF i > m.ncomp THEN [ok |-> TRUE, res |-> res]
    ELSE IF i \notin DOMAIN m.comps THEN [ok |-> FALSE, res |-> res]
    ELSE LET comp == CompOfRound(m, i)
             cn == IF comp.X0 # None THEN cen_num + 1 ELSE cen_num
             e0 == [function |-> comp.name, vals |-> EmptyMap]
             k == PyIndex(centers, cn)
         IN  IF k \notin 1..Len(centers)
             THEN [ok |-> FALSE, res |-> Put(res, i, e0)]
             ELSE LET e1 == [e0 EXCEPT !.vals =
                                [key \in {"X0", "Y0", "X0_err", "Y0_err"} |->
                                    CASE key = "X0" -> centers[k][1]
                                      [] key = "Y0" -> centers[k][2]
                                      [] key = "X0_err" -> centers[k][3]
                                      [] key = "Y0_err" -> centers[k][4]]]
                      r == ReadPars(comp, params, 1, par_num, e1)
                  IN  IF ~r.ok THEN [ok |-> FALSE, res |-> Put(res, i, r.entry)]
                      ELSE ReadFrom(m, params, centers, i + 1, r.par_num, cn,
                                    Put(res, i, r.entry))

\* PymFitter.read_results: results keeps what was stored before a raise
read_results(m, lines, res) ==
    LET params == SelectSeq(lines, IsParamText)
        cen_text == SelectSeq(lines, IsCenText)
        centers == Centers(cen_text)
    IN  IF ~centers.ok THEN [ok |-> FALSE, res |-> res]
        ELSE ReadFrom(m, params, centers.list, 1, 0, -1, res)

\* the Models a PymFitter is given: up to MaxComp forms, each with its own
\* center or none, with a position bound dcent or fixed positions
MaxComp == 2

FitForms == {"Sersic", "FlatSky", "Exponential"}

CenterArgs == {<<>>, <<40, 50>>, <<60, 70>>}

DcentArgs == {None, Some(30)}

FitIdle ==
    /\ model = [funcs |-> <<>>, ncomp |-> 0, comps |-> <<>>]
    /\ config = None
    /\ outText = None
    /\ results = EmptyMap
    /\ fitPc = "idle"

FitStart ==
    /\ \E n \in 1..MaxComp :
         \E funcs \in [1..n -> FitForms], centers \in [1..n -> CenterArgs],
            dcent \in DcentArgs :
             LET r == Model_init(funcs, centers, dcent)
             IN  r.ok /\ model = r.m
    /\ config = None
    /\ outText = None
    /\ results = EmptyMap
    /\ fitPc = "write_config"

\* PymFitter.run: write_config, the external fit, read_results
WriteConfig ==
    /\ fitPc = "write_config"
    /\ LET r == write_config(model)
       IN  /\ config' = IF r.ok THEN Some(r.lines) ELSE None
           /\ fitPc' = IF r.ok THEN "run" ELSE "failed"
    /\ UNCHANGED <<model, outText, results, exceptFit>>

RunImfit ==
    /\ fitPc = "run"
    /\ \E c \in ChisqVals : outText' = Some(BestFitText(config[1], c))
    /\ fitPc' = "read_results"
    /\ UNCHANGED <<model, config, results, exceptFit>>

ReadResults ==
    /\ fitPc = "read_results"
    /\ LET r == read_results(model, outText[1], results)
       IN  /\ results' = r.res
           /\ fitPc' = IF r.ok THEN "done" ELSE "failed"
    /\ UNCHANGED <<model, config, outText, exceptFit>>

FitStep ==
    \/ WriteConfig
    \/ RunImfit
    \/ ReadResults

----------------------------------------------------------------------------
(* core.write_config / write_component (core.py 179-247) and sersic_config  *)
(* (configs.py 7-46)                                                        *)

\* core.SERSIC_PARAMS
SERSIC_PARAMS == <<"X0", "Y0", "PA", "ell", "n", "I_e", "r_e">>

\* configs.DEFAULT_SERSIC, numbers in hundredths
CONFIG_DEFAULT_SERSIC ==
    [k \in SeqSetOf(SERSIC_PARAMS) |->
        CASE k = "X0" -> NoneSpec
          [] k = "Y0" -> NoneSpec
          [] k = "PA" -> ListSpec(<<2000, 0, 36000>>)
          [] k = "ell" -> ListSpec(<<20, 0, 99>>)
          [] k = "n" -> ListSpec(<<100, 1, 500>>)
          [] k = "I_e" -> ListSpec(<<5, 0, 100000>>)
          [] k = "r_e" -> ListSpec(<<2000, 0, 500000>>)]

\* sersic_config: the defaults, then init_params over them, then the center
\* from gal_pos and delta_pos unless init_params has the key X0
sersic_config(init_params, gal_pos, delta_pos) ==
    LET c1 == [k \in DOMAIN CONFIG_DEFAULT_SERSIC \cup DOMAIN init_params |->
                  IF k \in DOMAIN init_params THEN init_params[k]
                  ELSE CONFIG_DEFAULT_SERSIC[k]]
    IN  IF "X0" \notin DOMAIN init_params
        THEN [c1 EXCEPT
                !["X0"] = ListSpec(<<gal_pos[1], gal_pos[1] - delta_pos,
                                     gal_pos[1] + delta_pos>>),
                !["Y0"] = ListSpec(<<gal_pos[2], gal_pos[2] - delta_pos,
                                     gal_pos[2] + delta_pos>>)]
        ELSE c1

\* open(fn, 'w')
OpenedFile == [exists |-> TRUE, open |-> TRUE, lines |-> <<>>]

\* the line print(p, val, limit) writes for a spec of 1, 2 or 3 elements or
\* a bare number
PrintedLine(p, val) ==
    LET kind == IF p \in {"X0", "Y0"} THEN p ELSE "param"
        n == IF val.list THEN SpecLen(val) ELSE 0
    IN  [kind |-> kind, name |-> p, val |-> val.items[1],
         lim |-> CASE n = 3 -> "range"
                   [] n = 2 /\ val.tag -> "fixed"
                   [] n = 2 /\ ~val.tag -> "second"
                   [] OTHER -> "",
         lo |-> IF n = 3 \/ (n = 2 /\ ~val.tag) THEN Some(val.items[2]) ELSE None,
         hi |-> IF n = 3 THEN Some(val.items[3]) ELSE None]

\* the lines written after the line of parameter p
AfterLine(p, function) ==
    IF p = "Y0" THEN << MarkerLine("func", function) >> ELSE <<>>

\* write_component from the i-th name of SERSIC_PARAMS on: a list of a
\* length other than 1, 2 or 3 removes the file and raises, the handle
\* staying as it is
RECURSIVE WriteComponentFrom(_, _, _, _)
WriteComponentFrom(f, function, param_dict, i) ==
    IF i > Len(SERSIC_PARAMS) THEN [ok |-> TRUE, f |-> f]
    ELSE LET p == SERSIC_PARAMS[i]
         IN  IF p \notin DOMAIN param_dict THEN [ok |-> FALSE, f |-> f]
             ELSE LET val == param_dict[p]
                  IN  IF IsNoneSpec(val)
                      THEN WriteComponentFrom(f, function, param_dict, i + 1)
                      ELSE IF val.list /\ SpecLen(val) \notin {1, 2, 3}
                      THEN [ok |-> FALSE, f |-> [f EXCEPT !.exists = FALSE]]
                      ELSE WriteComponentFrom(
                               [f EXCEPT !.lines = @ \o << PrintedLine(p, val) >>
                                                     \o AfterLine(p, function)],
                               function, param_dict, i + 1)

write_component(f, function, param_dict) ==
    WriteComponentFrom(f, function, param_dict, 1)

\* core.write_config: open, write_component, close
core_write_config(param_dict) ==
    LET r == write_component(OpenedFile, "Sersic", param_dict)
    IN  IF r.ok THEN [ok |-> TRUE, f |-> [r.f EXCEPT !.open = FALSE]]
        ELSE r

\* the specs a caller gives in init_params: None, a bare number, and lists
\* of 0 to 4 elements
SpecArgs ==
    {NoneSpec, ScalarSpec(100), ListSpec(<<>>), ListSpec(<<100>>),
     FixedSpec(100), ListSpec(<<100, 50>>), ListSpec(<<100, 50, 150>>),
     ListSpec(<<100, 50, 150, 200>>)}

\* bound on the number of keys of init_params
MaxOverrides == 2

GalPosArgs == {<<5000, 6000>>}

DeltaPosArgs == {5000}

NoFile == [exists |-> FALSE, open |-> FALSE, lines |-> <<>>]

CfgIdle ==
    /\ paramDict = EmptyMap
    /\ cfile = NoFile
    /\ cfgPc = "idle"

CfgStart ==
    /\ \E keys \in SUBSET SeqSetOf(SERSIC_PARAMS) :
         /\ Cardinality(keys) <= MaxOverrides
         /\ \E init_params \in [keys -> SpecArgs], gal_pos \in GalPosArgs,
               delta_pos \in DeltaPosArgs :
                paramDict = sersic_config(init_params, gal_pos, delta_pos)
    /\ cfile = NoFile
    /\ cfgPc = "start"

\* run(..., config=param_dict): write_config(config_fn, config)
CoreWriteConfig ==
    /\ cfgPc = "start"
    /\ LET r == core_write_config(paramDict)
       IN  /\ cfile' = r.f
           /\ cfgPc' = IF r.ok THEN "written" ELSE "raised"
    /\ UNCHANGED <<paramDict, exceptCfg>>

CfgStep == CoreWriteConfig

----------------------------------------------------------------------------
(* core.read_results, core.py lines 300-338, next to                       *)
(* read_multicomponentresults on the same text                             *)

\* "# Reduced Chi^2 = none": the one Reduced comment whose last token is no
\* number
ReducedNoneLine ==
    [kind |-> "comment", name |-> "Reduced", val |-> 0, err |-> 0, ntok |-> 5, num |-> FALSE]

\* "<name> <val> # fixed": a value line without an uncertainty
FixedValueLine(kind, name, val) ==
    [kind |-> kind, name |-> name, val |-> val, err |-> 0, ntok |-> 4, num |-> FALSE]

\* reduced_chisq != 'none'
LastIsNone(c) == c.name = "Reduced" /\ ~c.num

\* (mutant) FUNCTION lines are kept among the parameter lines
IsParamsLine_KeepFunction(l) == l.kind \notin {"comment", "blank"}

\* l[0] != '#' if l[:2] != '\n' if l[0] != 'F'
IsParamsLine(l) == l.kind \notin {"comment", "blank", "func"}

ReadFailed == [ok |-> FALSE, res |-> EmptyMap]

\* the loop for i in range(7) of read_results, from i on (i counts from 1)
RECURSIVE ReadSersicFrom(_, _, _)
ReadSersicFrom(params, i, res) ==
    IF i > Len(SERSIC_PARAMS) THEN [ok |-> TRUE, res |-> res]
    ELSE IF i > Len(params) \/ NTokens(params[i]) < 2 THEN ReadFailed
    ELSE LET r1 == Put(res, SERSIC_PARAMS[i], params[i].val)
         IN  IF NTokens(params[i]) = 5
             THEN IF ~params[i].num THEN ReadFailed
                  ELSE ReadSersicFrom(params, i + 1,
                           Put(r1, SERSIC_PARAMS[i] \o "_err", params[i].err))
             ELSE ReadSersicFrom(params, i + 1, r1)

\* read_results(fn) with model = 'sersic'
core_read_results(lines) ==
    LET comments == SelectSeq(lines, StartsWithHash)
        IsReduced(c) == c.name = "Reduced"
        reduced == SelectSeq(comments, IsReduced)
        params == SelectSeq(lines, IsParamsLine)
    IN  IF \E i \in 1..Len(comments) : NTokens(comments[i]) < 2 THEN ReadFailed
        ELSE IF reduced = <<>> THEN ReadFailed
        ELSE ReadSersicFrom(params, 1,
                 IF LastIsNone(reduced[1]) THEN EmptyMap
                 ELSE Put(EmptyMap, "reduced_chisq", reduced[1].err))

\* the texts both parsers are run on: a Reduced comment ending in a number
\* or in none, then blocks as in NextLines, a parameter line with or without
\* its uncertainty, and at most MaxReadNoise blank or comment lines
MaxReadLines == 9

MaxReadNoise == 1

ReadFuncs == {"Sersic"}

ReadNextLines(lines) ==
    LET i == Len(lines) + 1
        k == LastKind(lines)
    IN  CASE k = "start" -> {ValueLine("X0", "X0", i, 100 + i)}
          [] k = "X0" -> {ValueLine("Y0", "Y0", i, 100 + i)}
          [] k = "Y0" -> {FunctionLine(f) : f \in ReadFuncs}
          [] OTHER -> {ValueLine("X0", "X0", i, 100 + i)}
                      \cup {FunctionLine(f) : f \in ReadFuncs}
                      \cup {ValueLine("param", n, i, 100 + i) : n \in ParseParNames}
                      \cup {FixedValueLine("param", n, i) : n \in ParseParNames}

ReadNoiseLines == {BlankLine, CommentLine}

NotRead == [done |-> FALSE, ok |-> FALSE, res |-> EmptyMap]

ReadIdle ==
    /\ rlines = <<>>
    /\ rsingle = NotRead
    /\ rmulti = NotParsed

ReadStart ==
    /\ rlines \in {<<ReducedLine(c)>> : c \in ChisqVals} \cup {<<ReducedNoneLine>>}
    /\ rsingle = NotRead
    /\ rmulti = NotParsed

AppendReadLine ==
    /\ ~rsingle.done /\ ~rmulti.done
    /\ Len(Sig(rlines)) < MaxReadLines
    /\ \E l \in ReadNextLines(rlines) : rlines' = Append(rlines, l)
    /\ UNCHANGED <<rsingle, rmulti, exceptRead>>

AppendReadNoise ==
    /\ ~rsingle.done /\ ~rmulti.done
    /\ Len(Noise(rlines)) < 1 + MaxReadNoise
    /\ \E l \in ReadNoiseLines : rlines' = Append(rlines, l)
    /\ UNCHANGED <<rsingle, rmulti, exceptRead>>

ReadSingle ==
    /\ ~rsingle.done
    /\ Complete(rlines)
    /\ LET r == core_read_results(rlines)
       IN  rsingle' = [done |-> TRUE, ok |-> r.ok, res |-> r.res]
    /\ UNCHANGED <<rlines, rmulti, exceptRead>>

ReadMulti ==
    /\ ~rmulti.done
    /\ Complete(rlines)
    /\ LET r == read_multicomponentresults(rlines)
       IN  rmulti' = [done |-> TRUE, ok |-> r.ok, t |-> r.t]
    /\ UNCHANGED <<rlines, rsingle, exceptRead>>

ReadStep ==
    \/ AppendReadLine
    \/ AppendReadNoise
    \/ ReadSingle
    \/ ReadMulti

----------------------------------------------------------------------------
(* The build-time tree, multicomponent.py lines 14-65 and 111-129, and     *)
(* write_multicomponentconfig, core.py lines 155-176                       *)

\* core.AVAILABLE_FUNCS
AVAILABLE_FUNCS == {"Sersic"}

\* MultiComponentModel.__init__
MCModel_init == [config_tree |-> EmptyMap, nobjects |-> 0, fit |-> FALSE]

\* ModelContainer.__init__
ModelContainer_init(object_number, object_position) ==
    [object_number |-> object_number,
     position |-> [k \in {"X0", "Y0"} |->
                      IF k = "X0" THEN object_position[1] ELSE object_position[2]],
     ncomponents |-> 0, component_nests |-> EmptyMap]

\* (mutant) the component is stored and ncomponents is left as it was
ModelContainer_add_component_NoCount(c, funcname, imfit_config) ==
    [c EXCEPT !.component_nests =
                  Put(@, c.ncomponents, [func |-> funcname, config |-> imfit_config])]

\* ModelContainer.add_component
ModelContainer_add_component(c, funcname, imfit_config) ==
    [c EXCEPT !.component_nests =
                  Put(@, c.ncomponents, [func |-> funcname, config |-> imfit_config]),
              !.ncomponents = @ + 1]

\* MultiComponentModel.add_object; 'center' without img_shape fails the
\* assert, 'center' with it takes the middle of the image (even sizes here)
MCModel_add_object(t, a, delta_pos) ==
    IF a.center /\ a.img_shape = <<>> THEN [ok |-> FALSE, t |-> t]
    ELSE LET gal_pos == IF a.center
                        THEN << a.img_shape[2] \div 2, a.img_shape[1] \div 2 >>
                        ELSE a.gal_pos
             x0 == << gal_pos[1], gal_pos[1] - delta_pos, gal_pos[1] + delta_pos >>
             y0 == << gal_pos[2], gal_pos[2] - delta_pos, gal_pos[2] + delta_pos >>
             mc == ModelContainer_init(t.nobjects, << x0, y0 >>)
         IN  [ok |-> TRUE,
              t |-> [t EXCEPT !.config_tree = Put(@, t.nobjects, mc),
                              !.nobjects = @ + 1]]

\* imfit_config: a copy of DEFAULT_SERSIC with init_params over it
ImfitConfig(init_params) ==
    [k \in DOMAIN CONFIG_DEFAULT_SERSIC \cup DOMAIN init_params |->
        IF k \in DOMAIN init_params THEN init_params[k]
        ELSE CONFIG_DEFAULT_SERSIC[k]]

\* (mutant) every object number passes for an existing one
ObjectExists_Any(t, objnumber) == TRUE

\* assert objnumber < self.nobjects, then self.config_tree[objnumber]
ObjectExists(t, objnumber) ==
    objnumber < t.nobjects /\ objnumber \in DOMAIN t.config_tree

\* MultiComponentModel.add_component
MCModel_add_component(t, objnumber, funcname, init_params) ==
    IF funcname \notin AVAILABLE_FUNCS THEN [ok |-> FALSE, t |-> t]
    ELSE IF ~ObjectExists(t, objnumber) THEN [ok |-> FALSE, t |-> t]
    ELSE [ok |-> TRUE,
          t |-> IF objnumber \in DOMAIN t.config_tree
                THEN [t EXCEPT !.config_tree[objnumber] =
                         ModelContainer_add_component(@, funcname,
                                                      ImfitConfig(init_params))]
                ELSE t]

\* print(key, val, str(lo)+','+str(hi)) for val, lo, hi = position[key]
PositionLine(key, pos) ==
    [kind |-> key, name |-> key, val |-> pos[1], lim |-> "range",
     lo |-> Some(pos[2]), hi |-> Some(pos[3])]

\* (mutant) the component keeps its X0 and Y0
NullCenter_Keep(component) == component

\* component['X0'] = None; component['Y0'] = None
NullCenter(component) ==
    [k \in DOMAIN component \cup {"X0", "Y0"} |->
        IF k \in {"X0", "Y0"} THEN NoneSpec ELSE component[k]]

\* the loop over the components of one object, from component cid on; the
\* component dicts of the tree are changed in place
RECURSIVE WriteComponentsFrom(_, _, _)
WriteComponentsFrom(f, c, cid) ==
    IF cid >= c.ncomponents THEN [ok |-> TRUE, f |-> f, c |-> c]
    ELSE LET function == c.component_nests[cid].func
             component == NullCenter(c.component_nests[cid].config)
             c1 == [c EXCEPT !.component_nests[cid].config = component]
             f1 == [f EXCEPT !.lines = Append(@, MarkerLine("func", function))]
             r == write_component(f1, function, component)
         IN  IF r.ok THEN WriteComponentsFrom(r.f, c1, cid + 1)
             ELSE [ok |-> FALSE, f |-> r.f, c |-> c1]

\* the loop over the objects, from object oid on; print('\n') leaves two
\* empty lines
RECURSIVE WriteObjectsFrom(_, _, _)
WriteObjectsFrom(f, t, oid) ==
    IF oid >= t.nobjects THEN [ok |-> TRUE, f |-> f, t |-> t]
    ELSE LET c == t.config_tree[oid]
             f1 == [f EXCEPT !.lines = @ \o << PositionLine("X0", c.position["X0"]),
                                              PositionLine("Y0", c.position["Y0"]) >>]
             r == WriteComponentsFrom(f1, c, 0)
             t1 == [t EXCEPT !.config_tree[oid] = r.c]
         IN  IF r.ok
             THEN WriteObjectsFrom(
                      [r.f EXCEPT !.lines = @ \o << MarkerLine("blank", ""),
                                                    MarkerLine("blank", "") >>],
                      t1, oid + 1)
             ELSE [ok |-> FALSE, f |-> r.f, t |-> t1]

\* write_multicomponentconfig: open, the loops, close
write_multicomponentconfig(t) ==
    LET r == WriteObjectsFrom(OpenedFile, t, 0)
    IN  IF r.ok THEN [ok |-> TRUE, f |-> [r.f EXCEPT !.open = FALSE], t |-> r.t]
        ELSE r

\* the arguments add_object is called with: a position, 'center' with the
\* shape of the image, 'center' without it; positions are in pixels
ObjectArgs ==
    {[center |-> FALSE, gal_pos |-> <<40, 60>>, img_shape |-> <<>>],
     [center |-> TRUE, gal_pos |-> <<>>, img_shape |-> <<120, 80>>],
     [center |-> TRUE, gal_pos |-> <<>>, img_shape |-> <<>>]}

DeltaArgs == {30, 50}

\* the forms add_component is called with, one outside AVAILABLE_FUNCS
ComponentFuncs == {"Sersic", "Gaussian"}

\* init_params of add_component: none, a fixed n, a center, a list of a
\* length write_component rejects
InitParamArgs ==
    {EmptyMap,
     [k \in {"n"} |-> FixedSpec(400)],
     [k \in {"X0"} |-> ScalarSpec(5)],
     [k \in {"PA"} |-> ListSpec(<<>>)]}

BuildIdle ==
    /\ mtree = MCModel_init
    /\ mOp = "none"
    /\ mErr = FALSE
    /\ mfile = NoFile
    /\ mPc = "idle"

BuildStart ==
    /\ mtree = MCModel_init
    /\ mOp = "none"
    /\ mErr = FALSE
    /\ mfile = NoFile
    /\ mPc = "build"

\* the call add_object(gal_pos, img_shape, delta_pos)
AddObjectCall(a, delta_pos) ==
    /\ mPc = "build"
    /\ Nodes(rtree) + Nodes(mtree) < MaxNodes
    /\ LET r == MCModel_add_object(mtree, a, delta_pos)
       IN  /\ mtree' = r.t
           /\ mErr' = ~r.ok
    /\ mOp' = "add_object"
    /\ UNCHANGED <<mfile, mPc, exceptBuild>>

BuildAddObject ==
    /\ mPc = "build"
    /\ \E a \in ObjectArgs, d \in DeltaArgs : AddObjectCall(a, d)

\* the call add_component(objnumber, funcname, init_params)
AddComponentCall(objnumber, funcname, init_params) ==
    /\ mPc = "build"
    /\ Nodes(rtree) + Nodes(mtree) < MaxNodes
    /\ LET r == MCModel_add_component(mtree, objnumber, funcname, init_params)
       IN  /\ mtree' = r.t
           /\ mErr' = ~r.ok
    /\ mOp' = "add_component"
    /\ UNCHANGED <<mfile, mPc, exceptBuild>>

\* object numbers a caller passes, the absent ones included
BuildObjNumbers == -1..(mtree.nobjects)

BuildAddComponent ==
    /\ mPc = "build"
    /\ \E o \in BuildObjNumbers, f \in ComponentFuncs, ip \in InitParamArgs :
          AddComponentCall(o, f, ip)

\* add_component as MultiComponentResults inherits it: past the checks of
\* the form and of the object number it calls add_component on a
\* ResultContainer, which has no such method (AttributeError)
Results_add_component(t, objnumber, funcname, init_params) ==
    IF funcname \notin AVAILABLE_FUNCS THEN [ok |-> FALSE, t |-> t]
    ELSE IF ~ObjectExists(t, objnumber) THEN [ok |-> FALSE, t |-> t]
    ELSE [ok |-> FALSE, t |-> t]

DoAddComponent ==
    /\ Nodes(rtree) + Nodes(mtree) < MaxNodes
    /\ \E o \in ObjNumbers, f \in ComponentFuncs, ip \in InitParamArgs :
          LET r == Results_add_component(rtree, o, f, ip)
          IN  /\ rtree' = r.t
              /\ tErr' = ~r.ok
    /\ tOp' = [NoCall EXCEPT !.call = "add_component"]
    /\ image' = None
    /\ UNCHANGED <<tArgs, exceptTree>>

\* run(..., config=mcmodel): write_multicomponentconfig(config_fn, config)
WriteMultiConfig ==
    /\ mPc = "build"
    /\ LET r == write_multicomponentconfig(mtree)
       IN  /\ mfile' = r.f
           /\ mtree' = r.t
           /\ mPc' = IF r.ok THEN "written" ELSE "raised"
    /\ UNCHANGED <<mOp, mErr, exceptBuild>>

BuildStep ==
    \/ BuildAddObject
    \/ BuildAddComponent
    \/ WriteMultiConfig

----------------------------------------------------------------------------
(* Model under construction arguments and set_comp_param, model.py 241-306 *)

ModelForms == {"Sersic", "FlatSky"}

\* the params of one component: None, and a dict with a name that no form
\* has
OverrideArgs == {EmptyMap, [k \in {"foo"} |-> ScalarSpec(100)]}

\* centers in half pixels: none, one whose x lies half a pixel above dcent,
\* one whose x lies below dcent
ModelCenterArgs == {<<>>, <<61, 80>>, <<50, 80>>}

\* dcent: 'fixed', 0 and 30 pixels
ModelDcentArgs == {None, Some(0), Some(60)}

\* names and specs set_comp_param is called with
SetNames == {"PA", "X0", "foo"}

SetValues ==
    {ScalarSpec(100), ListSpec(<<>>), ListSpec(<<100>>), FixedSpec(100),
     ListSpec(<<100, 50, 150>>), ListSpec(<<100, 150, 200>>),
     ListSpec(<<100, 50, 150, 200>>)}

\* bound on the number of set_comp_param calls
MaxSetCalls == 1

NoModel == [funcs |-> <<>>, ncomp |-> 0, comps |-> <<>>]

NoModelArgs ==
    [funcs |-> <<>>, params |-> <<>>, centers |-> <<>>, dcent |-> None,
     rel |-> FALSE]

NoModelCall ==
    [call |-> "none", comp |-> 0, name |-> "", value |-> NoneSpec, rel |-> FALSE]

ModelIdle ==
    /\ cmodel = NoModel
    /\ cArgs = NoModelArgs
    /\ cPrev = NoModel
    /\ cOp = NoModelCall
    /\ cErr = FALSE
    /\ cCalls = 0

\* Model(funcs, params, centers, dcent, relative_limits=rel)
ModelStart ==
    /\ \E n \in 1..MaxComp :
         \E funcs \in [1..n -> ModelForms], params \in [1..n -> OverrideArgs],
            centers \in [1..n -> ModelCenterArgs], dcent \in ModelDcentArgs,
            rel \in BOOLEAN :
             LET r == Model_new(funcs, params, centers, dcent, rel)
             IN  /\ r.ok
                 /\ cmodel = r.m
                 /\ cArgs = [funcs |-> funcs, params |-> params,
                             centers |-> centers, dcent |-> dcent, rel |-> rel]
    /\ cPrev = cmodel
    /\ cOp = [NoModelCall EXCEPT !.call = "init"]
    /\ cErr = FALSE
    /\ cCalls = 0

\* model.set_comp_param(comp_num, param, value)
SetCompParam ==
    /\ cCalls < MaxSetCalls
    /\ \E comp_num \in 1..(cmodel.ncomp + 1), param \in SetNames,
          value \in SetValues :
          LET r == set_comp_param(cmodel, comp_num, param, value, FALSE)
          IN  /\ cmodel' = r.m
              /\ cErr' = ~r.ok
              /\ cOp' = [call |-> "set_comp_param", comp |-> comp_num,
                         name |-> param, value |-> value, rel |-> FALSE]
    /\ cPrev' = cmodel
    /\ cCalls' = cCalls + 1
    /\ UNCHANGED <<cArgs, exceptModel>>

\* comp.set_param(name, value, relative_limits=rel) on a component
SetParam ==
    /\ cCalls < MaxSetCalls
    /\ \E comp_num \in DOMAIN cmodel.comps, name \in SetNames,
          value \in SetValues, rel \in BOOLEAN :
          LET r == set_param(cmodel.comps[comp_num], name, value, rel)
          IN  /\ cmodel' = [cmodel EXCEPT !.comps[comp_num] = r.c]
              /\ cErr' = ~r.ok
              /\ cOp' = [call |-> "set_param", comp |-> comp_num,
                         name |-> name, value |-> value, rel |-> rel]
    /\ cPrev' = cmodel
    /\ cCalls' = cCalls + 1
    /\ UNCHANGED <<cArgs, exceptModel>>

ModelStep ==
    \/ SetCompParam
    \/ SetParam

\* funcs as a caller gives them: one form name, or a list of them
ShapeForms == {"FlatSky", "PointSource"}

FuncsArgs ==
    {PyStr(f) : f \in ShapeForms}
        \cup {PyList(fs) : fs \in UNION {[1..n -> {PyStr(f) : f \in ShapeForms}] :
                                            n \in 1..MaxComp}}

\* params as a caller gives them: None, or a list of None
ParamsArgs ==
    {PyNone} \cup {PyList([i \in 1..n |-> PyNone]) : n \in 1..MaxComp}

\* one center [x, y], in half pixels
CenterPairs == {PyList(<<PyNum(c[1]), PyNum(c[2])>>) : c \in ModelCenterArgs \ {<<>>}}

\* centers as a caller gives them: one center, or a list of centers, each a
\* center or None
CentersArgs ==
    CenterPairs
        \cup {PyList(cs) : cs \in UNION {[1..n -> CenterPairs \cup {PyNone}] :
                                            n \in 1..MaxComp}}

\* bound on the number of Models constructed after the first from the same
\* arguments
MaxRebuilds == 1

\* Model(funcs, params, centers, dcent, relative_limits=rel) has returned;
\* cArgs.now is the caller's centers after the call
ShapeStart ==
    /\ \E funcs \in FuncsArgs, params \in ParamsArgs, centers \in CentersArgs,
          dcent \in ModelDcentArgs, rel \in BOOLEAN :
          \E r \in {Model_call(funcs, params, centers, dcent, rel)} :
              /\ r.ok
              /\ cmodel = r.m
              /\ cArgs = [funcs |-> funcs, params |-> params, centers |-> centers,
                          now |-> r.centers, dcent |-> dcent, rel |-> rel]
    /\ cPrev = NoModel
    /\ cOp = [NoModelCall EXCEPT !.call = "init"]
    /\ cErr = FALSE
    /\ cCalls = 0

\* Model(funcs, params, centers, ...) once more with the same objects; a
\* call that raises leaves the caller with the Model it had
ConstructAgain ==
    /\ cCalls < MaxRebuilds
    /\ \E r \in {Model_call(cArgs.funcs, cArgs.params, cArgs.now, cArgs.dcent,
                            cArgs.rel)} :
           /\ cmodel' = IF r.ok THEN r.m ELSE cmodel
           /\ cErr' = ~r.ok
           /\ cArgs' = [cArgs EXCEPT !.now = r.centers]
    /\ cPrev' = cmodel
    /\ cOp' = [NoModelCall EXCEPT !.call = "again"]
    /\ cCalls' = cCalls + 1
    /\ UNCHANGED <<exceptModel>>

----------------------------------------------------------------------------
(* Specifications, one per subsystem *)

InitParam == ParamStart /\ TreeIdle /\ ParseIdle /\ FitIdle /\ CfgIdle /\ ReadIdle /\ BuildIdle /\ ModelIdle

NextParam == ParamStep

SpecParam == InitParam /\ [][NextParam]_vars

InitTree == TreeStart /\ IdleParam /\ ParseIdle /\ FitIdle /\ CfgIdle /\ ReadIdle /\ BuildStart /\ ModelIdle

NextTree ==
    \/ DoAddObject
    \/ DoAddFunction
    \/ DoAddParameter
    \/ DoAddComponent
    \/ BuildAddObject
    \/ BuildAddComponent

SpecTree == InitTree /\ [][NextTree]_vars

InitArray == TreeStart /\ IdleParam /\ ParseIdle /\ FitIdle /\ CfgIdle /\ ReadIdle /\ BuildIdle /\ ModelIdle

NextArray ==
    \/ DoAddObject
    \/ DoAddAnyFunction
    \/ DoAddParameter
    \/ DoArray

SpecArray == InitArray /\ [][NextArray]_vars

InitParse == ParseStart /\ IdleParam /\ TreeIdle /\ FitIdle /\ CfgIdle /\ ReadIdle /\ BuildIdle /\ ModelIdle

NextParse == ParseStep

SpecParse == InitParse /\ [][NextParse]_vars

InitFit == FitStart /\ IdleParam /\ TreeIdle /\ ParseIdle /\ CfgIdle /\ ReadIdle /\ BuildIdle /\ ModelIdle

NextFit == FitStep

SpecFit == InitFit /\ [][NextFit]_vars

InitCfg == CfgStart /\ IdleParam /\ TreeIdle /\ ParseIdle /\ FitIdle /\ ReadIdle /\ BuildIdle /\ ModelIdle

NextCfg == CfgStep

SpecCfg == InitCfg /\ [][NextCfg]_vars

InitRead == ReadStart /\ IdleParam /\ TreeIdle /\ ParseIdle /\ FitIdle /\ CfgIdle /\ BuildIdle /\ ModelIdle

NextRead == ReadStep

SpecRead == InitRead /\ [][NextRead]_vars

InitBuild ==
    BuildStart /\ IdleParam /\ TreeIdle /\ ParseIdle /\ FitIdle /\ CfgIdle /\ ReadIdle /\ ModelIdle

NextBuild == BuildStep

SpecBuild == InitBuild /\ [][NextBuild]_vars

\* a session that writes its config either from a Model through PymFitter
\* or from a MultiComponentModel
InitOrder ==
    /\ \/ FitStart /\ BuildIdle
       \/ FitIdle /\ BuildStart
    /\ IdleParam /\ TreeIdle /\ ParseIdle /\ CfgIdle /\ ReadIdle /\ ModelIdle

NextOrder ==
    \/ WriteConfig
    \/ RunImfit
    \/ ReadResults
    \/ BuildAddObject
    \/ BuildAddComponent
    \/ WriteMultiConfig

SpecOrder == InitOrder /\ [][NextOrder]_vars

InitModel ==
    /\ ModelStart
    /\ IdleParam /\ TreeIdle /\ ParseIdle /\ FitIdle /\ CfgIdle /\ ReadIdle /\ BuildIdle

NextModel == ModelStep

SpecModel == InitModel /\ [][NextModel]_vars

InitShapes ==
    /\ ShapeStart
    /\ IdleParam /\ TreeIdle /\ ParseIdle /\ FitIdle /\ CfgIdle /\ ReadIdle /\ BuildIdle

NextShapes == ConstructAgain

SpecShapes == InitShapes /\ [][NextShapes]_vars

----------------------------------------------------------------------------
(* Claims about Param *)

\* C1: for a Param constructed with both bounds set, after any sequence of
\* accepted mutations, whenever vmin and vmax are both set,
\* vmin <= value <= vmax.
C1_BoundsHold == (ctorBoth /\ ~parRejected /\ BothSet(par)) => InRange(par)

\* C2: a rejected mutation (set value, set vmin, set vmax, set_lim) leaves
\* value, vmin, vmax and fixed exactly as they were before the call.
C2_RejectedUnchanged ==
    (parErr /\ parOp \in {"value", "vmin", "vmax", "set_lim"})
        => Fields(par) = Fields(parPrev)

\* C3: in every reachable state a fixed Param carries no bound.
C3_FixedNoBounds == par.fixed => (par.vmin = None /\ par.vmax = None)

----------------------------------------------------------------------------
(* Claims about the result tree *)

\* the parameter mapping of the most recently added component of object o
LastParams(t, o) ==
    t.config_tree[o].component_nests[t.config_tree[o].ncomponents - 1].params

\* C4: an add_parameter call that omits the component index, on an object
\* with at least one component, inserts name and name_err into the most
\* recently added component (index ncomponents - 1).
C4_OmittedIndexTargetsLast ==
    (/\ tOp.call = "add_parameter"
     /\ tOp.comp = None
     /\ tOp.obj \in DOMAIN rtree.config_tree
     /\ rtree.config_tree[tOp.obj].ncomponents >= 1)
        => (/\ ~tErr
            /\ {tOp.name, tOp.name \o "_err"} \subseteq DOMAIN LastParams(rtree, tOp.obj)
            /\ LastParams(rtree, tOp.obj)[tOp.name] = tOp.args[1]
            /\ LastParams(rtree, tOp.obj)[tOp.name \o "_err"] = tOp.args[2])

\* C5: after add_object(x0, x0_err, y0, y0_err) and add_function on that
\* object, the new component's mapping holds X0 = x0, X0_err = x0_err,
\* Y0 = y0 and Y0_err = y0_err.
C5_FunctionSeededWithCenter ==
    (tOp.call = "add_function" /\ ~tErr)
        => (/\ LastParams(rtree, tOp.obj)["X0"] = tArgs[tOp.obj][1]
            /\ LastParams(rtree, tOp.obj)["X0_err"] = tArgs[tOp.obj][2]
            /\ LastParams(rtree, tOp.obj)["Y0"] = tArgs[tOp.obj][3]
            /\ LastParams(rtree, tOp.obj)["Y0_err"] = tArgs[tOp.obj][4])

----------------------------------------------------------------------------
(* Claims about read_multicomponentresults *)

\* the places of the X0, FUNCTION and parameter lines among the lines of
\* the text that are neither blank nor comment
KindIdx(sig, kind) == {i \in 1..Len(sig) : sig[i].kind = kind}

\* the X0 line that opens the object line i belongs to
OpeningX0(sig, i) ==
    CHOOSE j \in KindIdx(sig, "X0") :
        j <= i /\ \A k \in KindIdx(sig, "X0") : k <= i => k <= j

\* the number of the object line i belongs to (objects count from 0)
ObjOf(sig, i) == Cardinality({j \in KindIdx(sig, "X0") : j <= i}) - 1

\* the number, inside its object, of the component opened by the nearest
\* FUNCTION line at or before line i
CompOf(sig, i) ==
    Cardinality({j \in KindIdx(sig, "func") : OpeningX0(sig, i) < j /\ j <= i}) - 1

CenterKeys == {"X0", "X0_err", "Y0", "Y0_err"}

\* the tree the text describes: one object per X0/Y0/FUNCTION triple, one
\* component per FUNCTION line, every parameter line in the component of the
\* nearest preceding FUNCTION line (a later line of the same name in the
\* same component replaces an earlier one)
TreeOfText(t, lines) ==
    LET sig == Sig(lines)
        X == KindIdx(sig, "X0")
        F == KindIdx(sig, "func")
        P == KindIdx(sig, "param")
        In(o, c) == {i \in P : ObjOf(sig, i) = o /\ CompOf(sig, i) = c}
    IN  /\ t.nobjects = Cardinality(X)
        /\ DOMAIN t.config_tree = 0..(Cardinality(X) - 1)
        /\ \A i \in X :
              /\ t.config_tree[ObjOf(sig, i)].X0 = sig[i].val
              /\ t.config_tree[ObjOf(sig, i)].Y0 = sig[i + 1].val
        /\ \A o \in DOMAIN t.config_tree :
              LET n == Cardinality({j \in F : ObjOf(sig, j) = o})
              IN  /\ t.config_tree[o].ncomponents = n
                  /\ DOMAIN t.config_tree[o].component_nests = 0..(n - 1)
                  /\ \A c \in 0..(n - 1) :
                        DOMAIN t.config_tree[o].component_nests[c].params \ CenterKeys
                            = UNION {{sig[i].name, sig[i].name \o "_err"} : i \in In(o, c)}
        /\ \A j \in F :
              t.config_tree[ObjOf(sig, j)].component_nests[CompOf(sig, j)].func
                  = sig[j].name
        /\ \A i \in P :
              (\A k \in In(ObjOf(sig, i), CompOf(sig, i)) :
                    sig[k].name = sig[i].name => k <= i)
              => LET m == t.config_tree[ObjOf(sig, i)]
                              .component_nests[CompOf(sig, i)].params
                 IN  /\ m[sig[i].name] = sig[i].val
                     /\ m[sig[i].name \o "_err"] = sig[i].err

\* every X0 line is directly followed by its Y0 line and its FUNCTION line
TriplesAdjacent(lines) ==
    \A i \in 1..Len(lines) :
        lines[i].kind = "X0"
            => (/\ i + 2 <= Len(lines)
                /\ lines[i + 1].kind = "Y0"
                /\ lines[i + 2].kind = "func")

\* every comment has at least two tokens
CommentsHaveText(lines) ==
    \A i \in 1..Len(lines) : lines[i].kind = "comment" => lines[i].ntok >= 2

\* C6 (as claimed): for any well-formed text, with comments and blank lines
\* interleaved anywhere, read_multicomponentresults returns the tree the
\* text describes.
C6_ParseAnyInterleaving ==
    parsed.done => (parsed.ok /\ TreeOfText(parsed.t, text))

\* C6 (amended): the same, for texts in which no comment or blank line
\* stands between the X0, Y0 and FUNCTION lines of a block and every
\* comment has at least two tokens.
C6_ParseAdjacentTriples ==
    (parsed.done /\ TriplesAdjacent(text) /\ CommentsHaveText(text))
        => (parsed.ok /\ TreeOfText(parsed.t, text))

\* a parsed text with two objects, two components in the first, parameter
\* lines in both and a comment between the blocks
C6_Witness ==
    /\ parsed.done /\ parsed.ok
    /\ TriplesAdjacent(text) /\ CommentsHaveText(text)
    /\ Len(Noise(text)) >= 2
    /\ parsed.t.nobjects = 2
    /\ parsed.t.config_tree[0].ncomponents = 2

----------------------------------------------------------------------------
(* Claims about PymFitter.write_config and PymFitter.read_results *)

\* every name a results entry can hold a value for
ValueNames == {"X0", "Y0"} \cup UNION {SeqSetOf(PARAM_NAMES[f]) : f \in DOMAIN PARAM_NAMES}

\* the keys of a results entry that do not end in _err
PlainKeys(entry) == {k \in DOMAIN entry.vals : \A n \in ValueNames : k # n \o "_err"}

IsX0Line(l) == l.kind = "X0"

IsY0Line(l) == l.kind = "Y0"

IsParLine(l) == l.kind = "param"

\* the number of parameter lines of the components before comp_i
RECURSIVE ParsBefore(_, _)
ParsBefore(m, i) ==
    IF i <= 1 THEN 0
    ELSE ParsBefore(m, i - 1) + Len(m.comps[i - 1].param_names)

\* comp_i of results is the entry of the Model's comp_i: its form, and for
\* the j-th name of param_names the value and the error of that component's
\* j-th parameter line in the text
EntryMatches(m, lines, res, i) ==
    LET comp == m.comps[i]
        plines == SelectSeq(lines, IsParLine)
    IN  /\ res[i].function = comp.name
        /\ \A j \in 1..Len(comp.param_names) :
              LET l == plines[ParsBefore(m, i) + j]
              IN  /\ comp.param_names[j] \in DOMAIN res[i].vals
                  /\ res[i].vals[comp.param_names[j]] = l.val
                  /\ res[i].vals[comp.param_names[j] \o "_err"] = l.err

HasCenter(comp) == comp.X0 # None

\* PymFitter.run has gone through read_results (it returned or it raised)
ReadCalled == fitPc = "done" \/ (fitPc = "failed" /\ outText # None)

C8_CentersPerComponent ==
    (ReadCalled /\ \A i \in DOMAIN model.comps : HasCenter(model.comps[i]))
        => (/\ fitPc = "done"
            /\ \A i \in 1..model.ncomp :
                  LET x == SelectSeq(outText[1], IsX0Line)[i]
                      y == SelectSeq(outText[1], IsY0Line)[i]
                  IN  /\ results[i].vals["X0"] = x.val
                      /\ results[i].vals["Y0"] = y.val
                      /\ results[i].vals["X0_err"] = x.err
                      /\ results[i].vals["Y0_err"] = y.err)

----------------------------------------------------------------------------
(* Claims about core.write_config (specification SpecCfg) *)

FunctionLines == {i \in 1..Len(cfile.lines) : cfile.lines[i].kind = "func"}

CenterPresent ==
    ~IsNoneSpec(paramDict["X0"]) /\ ~IsNoneSpec(paramDict["Y0"])

CenterAbsent ==
    IsNoneSpec(paramDict["X0"]) /\ IsNoneSpec(paramDict["Y0"])

\* C9: a config written by write_config holds exactly one FUNCTION line; with
\* a center it is the line right after the Y0 line, and without a center
\* (X0 and Y0 None) it comes before every parameter line.
C9_OneFunctionLine ==
    cfgPc = "written"
        => (/\ Cardinality(FunctionLines) = 1
            /\ CenterPresent
                 => \E i \in 1..Len(cfile.lines) :
                       cfile.lines[i].kind = "Y0" /\ i + 1 \in FunctionLines
            /\ CenterAbsent
                 => \A i \in 1..Len(cfile.lines) :
                       cfile.lines[i].kind = "param"
                           => \E j \in FunctionLines : j < i)

\* C10: when write_config raises on an invalid parameter spec, the config
\* file is off the disk and its handle is closed.
C10_ClosedAndDeleted ==
    cfgPc = "raised" => (~cfile.exists /\ ~cfile.open)

----------------------------------------------------------------------------
(* Claims about the two result parsers (specification SpecRead) *)

\* the text with its Reduced comment ending in a number
WithNumber(lines) == [lines EXCEPT ![1] = ReducedLine(7)]

EndsInNone == LastIsNone(rlines[1])

\* C11: a text that either parser reads when its Reduced comment ends in a
\* number is read by that parser all the same when the comment ends in none;
\* the recorded statistic is the number, and with none nothing is recorded
\* while the parsed parameters are the same.
C11_ReducedNoneOrNumber ==
    /\ (rsingle.done /\ core_read_results(WithNumber(rlines)).ok)
         => (/\ rsingle.ok
             /\ ~EndsInNone => rsingle.res["reduced_chisq"] = rlines[1].err
             /\ EndsInNone
                  => (/\ "reduced_chisq" \notin DOMAIN rsingle.res
                      /\ \A k \in DOMAIN rsingle.res :
                           rsingle.res[k] = core_read_results(WithNumber(rlines)).res[k]))
    /\ (rmulti.done /\ read_multicomponentresults(WithNumber(rlines)).ok)
         => (/\ rmulti.ok
             /\ ~EndsInNone => rmulti.t.reduced_chisq = Some(rlines[1].err)
             /\ EndsInNone
                  => (/\ rmulti.t.reduced_chisq = None
                      /\ rmulti.t.config_tree =
                           read_multicomponentresults(WithNumber(rlines)).t.config_tree))

\* the non-comment, non-blank, non-FUNCTION lines of the text, in order
IsValueLine(l) == l.kind \in {"X0", "Y0", "param"}

ValueLines == SelectSeq(rlines, IsValueLine)

\* C19: read_results on a text with at least 7 parameter lines gives, for
\* i = 1..7, the i-th name of SERSIC_PARAMS the second token of the i-th
\* parameter line, and name_err (the fifth token) exactly when that line has
\* exactly 5 tokens.
C19_PositionalSersic ==
    (rsingle.done /\ Len(ValueLines) >= 7)
        => (/\ rsingle.ok
            /\ \A i \in 1..7 :
                 LET l == ValueLines[i]
                     name == SERSIC_PARAMS[i]
                 IN  /\ rsingle.res[name] = l.val
                     /\ (name \o "_err") \in DOMAIN rsingle.res <=> l.ntok = 5
                     /\ l.ntok = 5 => rsingle.res[name \o "_err"] = l.err)

\* a text read with a FUNCTION line and a line of fewer than 5 tokens among
\* its first 7 parameter lines, and a name that is not the positional one
C19_Witness ==
    /\ rsingle.done /\ rsingle.ok
    /\ Len(ValueLines) >= 7
    /\ \E i \in 1..7 : ValueLines[i].ntok = 5
    /\ \E i \in 1..7 : ValueLines[i].ntok # 5
    /\ \E i \in 1..7 : ValueLines[i].name # SERSIC_PARAMS[i]
    /\ \E j \in 2..Len(rlines) : rlines[j].kind = "blank"

----------------------------------------------------------------------------
(* Claims about the two trees (specification SpecTree) *)

\* object keys 0..nobjects-1 and, per object, component keys
\* 0..ncomponents-1
Contiguous(t) ==
    /\ DOMAIN t.config_tree = 0..(t.nobjects - 1)
    /\ \A o \in DOMAIN t.config_tree :
          DOMAIN t.config_tree[o].component_nests
              = 0..(t.config_tree[o].ncomponents - 1)

\* C12: after any calls of add_object, add_component, add_function and
\* add_parameter, raising or not, the object keys of the build-time tree and
\* of the result tree are 0..nobjects-1 and the component keys of each
\* object are 0..ncomponents-1.
C12_KeysContiguous == Contiguous(rtree) /\ Contiguous(mtree)

\* both trees hold an object with a component, and the last call on each
\* raised
C12_Witness ==
    /\ tErr /\ mErr
    /\ \E o \in DOMAIN rtree.config_tree : rtree.config_tree[o].ncomponents >= 1
    /\ \E o \in DOMAIN mtree.config_tree : mtree.config_tree[o].ncomponents >= 1

----------------------------------------------------------------------------
(* Claims about the build-time tree (specification SpecBuild) *)

\* C13: a call of MultiComponentModel.add_component with a form outside
\* AVAILABLE_FUNCS or with an object number outside 0..nobjects-1 raises and
\* leaves the tree as it was.
C13_AddComponentRejects ==
    [][\A o \in -1..MaxNodes, f \in ComponentFuncs, ip \in InitParamArgs :
          (/\ AddComponentCall(o, f, ip)
           /\ f \notin AVAILABLE_FUNCS \/ o \notin 0..(mtree.nobjects - 1))
              => (mErr' /\ mtree' = mtree)]_vars

\* a call of add_component has raised on a tree that holds an object with a
\* component
C13_Witness ==
    /\ mOp = "add_component" /\ mErr
    /\ \E o \in DOMAIN mtree.config_tree : mtree.config_tree[o].ncomponents >= 1

\* the position add_object is given
PositionOf(a) ==
    IF a.center THEN << a.img_shape[2] \div 2, a.img_shape[1] \div 2 >>
    ELSE a.gal_pos

\* pos - delta, and 1 where that is below 1
ClampedLower(pos, delta) == IF pos - delta > 1 THEN pos - delta ELSE 1

\* C17: a call of add_object that returns puts the new object at index
\* nobjects, adds one to nobjects, and stores X0 and Y0 as
\* [pos, lower, pos + delta] with lower = pos - delta, or 1 where that is
\* below 1.
C17_AddObjectClamped ==
    [][\A a \in ObjectArgs, d \in DeltaArgs :
          (AddObjectCall(a, d) /\ ~mErr')
              => LET n == mtree.nobjects
                     p == PositionOf(a)
                 IN  /\ mtree'.nobjects = n + 1
                     /\ n \notin DOMAIN mtree.config_tree
                     /\ n \in DOMAIN mtree'.config_tree
                     /\ \A o \in DOMAIN mtree.config_tree :
                           mtree'.config_tree[o] = mtree.config_tree[o]
                     /\ mtree'.config_tree[n].position["X0"]
                           = << p[1], ClampedLower(p[1], d), p[1] + d >>
                     /\ mtree'.config_tree[n].position["Y0"]
                           = << p[2], ClampedLower(p[2], d), p[2] + d >>]_vars

----------------------------------------------------------------------------
(* Claims about the order of the config text (specification SpecOrder) *)

RECURSIVE Concat(_)
Concat(ss) == IF ss = <<>> THEN <<>> ELSE Head(ss) \o Concat(Tail(ss))

IsNotBlank(l) == l.kind # "blank"

\* kind and name of every line that is not empty, in order of the file
ShapeOf(lines) ==
    LET ls == SelectSeq(lines, IsNotBlank)
    IN  [i \in 1..Len(ls) |-> << ls[i].kind, ls[i].name >>]

ParamShape(names) == [j \in 1..Len(names) |-> << "param", names[j] >>]

\* comp_1..comp_N in the order of funcs, each with its center lines if it
\* has a center, its FUNCTION line and its parameters in param_names order
ExpectedModelShape(m) ==
    Concat([i \in 1..m.ncomp |->
              (IF HasCenter(m.comps[i])
               THEN << << "X0", "X0" >>, << "Y0", "Y0" >> >> ELSE <<>>)
              \o << << "func", m.funcs[i] >> >>
              \o ParamShape(PARAM_NAMES[m.funcs[i]])])

\* the parameters of a component without X0 and Y0, in the fixed order
ComponentParams == SelectSeq(SERSIC_PARAMS, LAMBDA p : p \notin {"X0", "Y0"})

\* objects in index order, each with its X0 and Y0 line and then its
\* components in the order added, each a FUNCTION line and its parameters
ExpectedTreeShape(t) ==
    Concat([o \in 1..t.nobjects |->
              << << "X0", "X0" >>, << "Y0", "Y0" >> >>
              \o Concat([c \in 1..t.config_tree[o - 1].ncomponents |->
                           << << "func", t.config_tree[o - 1].component_nests[c - 1].func >> >>
                           \o ParamShape(ComponentParams)])])

\* the values of the X0 and Y0 lines of the file, in order
CenterValues(lines) ==
    LET ls == SelectSeq(lines, LAMBDA l : l.kind \in {"X0", "Y0"})
    IN  [i \in 1..Len(ls) |-> ls[i].val]

ExpectedCenterValues(t) ==
    Concat([o \in 1..t.nobjects |->
              << t.config_tree[o - 1].position["X0"][1],
                 t.config_tree[o - 1].position["Y0"][1] >>])

\* C18: the file PymFitter.write_config writes holds comp_1..comp_N in the
\* order of the forms given to Model, each with its parameters in
\* param_names order; the file write_multicomponentconfig writes holds the
\* objects in index order, each as its X0 line, its Y0 line and its
\* components in the order added, each component as a FUNCTION line and its
\* parameters in the fixed order, with no further X0 or Y0 line.
C18_SerializationOrder ==
    /\ config # None => ShapeOf(config[1]) = ExpectedModelShape(model)
    /\ mPc = "written"
         => (/\ ShapeOf(mfile.lines) = ExpectedTreeShape(mtree)
             /\ CenterValues(mfile.lines) = ExpectedCenterValues(mtree))

\* a file written from a tree of two objects, one of them with two
\* components
C18_Witness ==
    /\ mPc = "written"
    /\ mtree.nobjects >= 2
    /\ \E o \in DOMAIN mtree.config_tree : mtree.config_tree[o].ncomponents >= 2

----------------------------------------------------------------------------
(* Claims about relative limits (specification SpecParam) *)

\* C14: a Param constructed with relative_limits, a value v and the offsets
\* a and b has vmin = v - a and vmax = v + b, and set_lim(a, b) on a Param
\* in relative mode that returns leaves vmin = value - a and
\* vmax = value + b.
C14_RelativeOffsets ==
    /\ parOp = "init"
         => \A v \in Vals, a \in Vals, b \in Vals, f \in BOOLEAN :
               LET r == ParamInit(v, Some(a), Some(b), f, TRUE)
               IN  (r.ok /\ par = r.p)
                       => (par.vmin = Some(v - a) /\ par.vmax = Some(v + b))
    /\ (parOp = "set_lim" /\ parPrev.rel /\ ~parErr)
         => \A a \in Vals, b \in Vals :
               LET r == SetLim(parPrev, a, b)
               IN  (r.ok /\ par = r.p)
                       => (/\ par.vmin = Some(parPrev.value - a)
                           /\ par.vmax = Some(parPrev.value + b))

----------------------------------------------------------------------------
(* Claims about Model and ModelComponent (specification SpecModel) *)

\* the names a component recognizes
Recognized(c) == SeqSetOf(c.param_names) \cup {"X0", "Y0"}

\* C15: the Params of every component are those of its param_names, no more
\* and no fewer, and a set_param or set_comp_param call with a name the
\* component does not recognize raises and leaves the Model as it was; an
\* unrecognized name among the params given at construction makes the
\* construction fail, so no constructed component holds one.
C15_OnlyRecognizedParams ==
    /\ \A i \in DOMAIN cmodel.comps :
          DOMAIN cmodel.comps[i].params = SeqSetOf(cmodel.comps[i].param_names)
    /\ (/\ cOp.call \in {"set_param", "set_comp_param"}
        /\ cOp.comp \in DOMAIN cPrev.comps
        /\ cOp.name \notin Recognized(cPrev.comps[cOp.comp]))
           => (cErr /\ cmodel = cPrev)

\* value, bounds and fixed flag of an optional Param
ParamFields(p) == << p[1].value, p[1].vmin, p[1].vmax, p[1].fixed >>

ClampedMin(pos, d) == IF pos - d > OnePixel THEN pos - d ELSE OnePixel

\* C16: a Model constructed with a center (x, y) for a component and a
\* positive dcent d holds X0 = x with bounds [max(1, x - d), x + d] and
\* Y0 = y with bounds [max(1, y - d), y + d], not fixed; with dcent 0 or
\* 'fixed' it holds X0 and Y0 fixed at x and y without bounds.
C16_CenterExpansion ==
    cOp.call = "init"
        => \A i \in DOMAIN cmodel.comps :
              LET center == cArgs.centers[i]
                  c == cmodel.comps[i]
              IN  center # <<>>
                      => IF cArgs.dcent # None /\ cArgs.dcent[1] > 0
                         THEN LET d == cArgs.dcent[1]
                              IN  /\ ParamFields(c.X0)
                                       = << center[1], Some(ClampedMin(center[1], d)),
                                            Some(center[1] + d), FALSE >>
                                  /\ ParamFields(c.Y0)
                                       = << center[2], Some(ClampedMin(center[2], d)),
                                            Some(center[2] + d), FALSE >>
                         ELSE /\ ParamFields(c.X0) = << center[1], None, None, TRUE >>
                              /\ ParamFields(c.Y0) = << center[2], None, None, TRUE >>

\* the Param the last call was to set
TargetParam ==
    LET c == cmodel.comps[cOp.comp]
    IN  CASE cOp.name = "X0" -> c.X0
          [] cOp.name = "Y0" -> c.Y0
          [] OTHER -> c.params[cOp.name]

\* C20: of the spec given to set_param, _parse_limits makes value v, bounds
\* lo and hi and fixed = false for [v, lo, hi], value v, no bounds and
\* fixed = true for [v, 'fixed'], the value, no bounds and fixed = false for
\* a bare number, and raises for a list of any other length; a call that
\* returns without relative limits stores that Param, and a list of another
\* length leaves the Model as it was.
C20_LimitDestructuring ==
    cOp.call \in {"set_param", "set_comp_param"}
        => LET v == cOp.value
               l == parse_limits(v)
           IN  /\ (v.list /\ ~v.tag /\ Len(v.items) = 3)
                    => (/\ l.ok /\ l.val = v.items[1] /\ ~l.fixed
                        /\ l.vmin = Some(v.items[2]) /\ l.vmax = Some(v.items[3]))
               /\ (v.list /\ v.tag /\ Len(v.items) = 1)
                    => (/\ l.ok /\ l.val = v.items[1] /\ l.fixed
                        /\ l.vmin = None /\ l.vmax = None)
               /\ (~v.list /\ v.items # <<>>)
                    => (/\ l.ok /\ l.val = v.items[1] /\ ~l.fixed
                        /\ l.vmin = None /\ l.vmax = None)
               /\ (v.list /\ SpecLen(v) \notin {2, 3})
                    => (~l.ok /\ cErr /\ cmodel = cPrev)
               /\ (~cErr /\ ~cOp.rel)
                    => ParamFields(TargetParam) = << l.val, l.vmin, l.vmax, l.fixed >>

\* a set_comp_param call with a list of 3 elements has returned and changed
\* the Model
C20_Witness ==
    /\ cOp.call = "set_comp_param" /\ ~cErr
    /\ cOp.value.list /\ Len(cOp.value.items) = 3
    /\ cmodel # cPrev

----------------------------------------------------------------------------
(* Claims about array on the result tree (specification SpecArray) *)

\* the (object, component) pairs of a tree
TreeComponents(t) ==
    UNION {{<<o, c>> : c \in DOMAIN t.config_tree[o].component_nests} :
              o \in DOMAIN t.config_tree}

\* the sum over the components ocs of the value of each one's own profile
\* in one pixel
RECURSIVE SumOfProfiles(_, _, _, _)
SumOfProfiles(t, ocs, shape, cell) ==
    IF ocs = {} THEN 0
    ELSE LET oc == CHOOSE x \in ocs : TRUE
             comp == t.config_tree[oc[1]].component_nests[oc[2]]
         IN  Sersic_array(comp.params, shape)[cell]
                 + SumOfProfiles(t, ocs \ {oc}, shape, cell)

\* some component of the tree names a form without a profile class
HasUnknownForm(t) ==
    \E oc \in TreeComponents(t) :
        t.config_tree[oc[1]].component_nests[oc[2]].func \notin CLASS_NAMES

\* C21: array(shape) on a result tree returns the grid that holds, in every
\* pixel, the sum over every component of every object of that component's
\* own profile in that pixel (zero everywhere for a tree without
\* components), and raises when some component names a form that has no
\* profile class.
C21_ArraySumsProfiles ==
    tOp.call = "array"
        => IF HasUnknownForm(rtree) THEN tErr /\ image = None
           ELSE /\ ~tErr
                /\ image # None
                /\ DOMAIN image[1] = Cells(tOp.args)
                /\ \A cell \in Cells(tOp.args) :
                      image[1][cell]
                          = SumOfProfiles(rtree, TreeComponents(rtree),
                                          tOp.args, cell)

\* array has returned the grid of a tree with components in two objects,
\* lit in two pixels
C21_Witness ==
    /\ tOp.call = "array" /\ ~tErr /\ image # None
    /\ \E oc1, oc2 \in TreeComponents(rtree) : oc1[1] # oc2[1]
    /\ \E c1, c2 \in DOMAIN image[1] :
          c1 # c2 /\ image[1][c1] > 0 /\ image[1][c2] > 0

\* array has raised on a tree that holds a Gaussian after a Sersic
C21_RaisedWitness ==
    /\ tOp.call = "array" /\ tErr
    /\ \E oc \in TreeComponents(rtree) :
          rtree.config_tree[oc[1]].component_nests[oc[2]].func \in CLASS_NAMES

----------------------------------------------------------------------------
(* Claims about the shapes of the arguments of Model (specification      *)
(* SpecShapes)                                                             *)

\* C22: a Model that was constructed has a component comp_i for every i in
\* 1..ncomp and no others, whatever the shapes of funcs, params and centers
\* the constructor accepted.
C22_ComponentPerForm ==
    DOMAIN cmodel.comps = 1..cmodel.ncomp

\* C23: a construction leaves the caller's centers as they were given, and a
\* second construction from the same funcs, params and centers returns a
\* Model whose components have the X0 and Y0 Params, in value, bounds and
\* fixed flag, of the first.
C23_CentersUntouched ==
    /\ cArgs.now = cArgs.centers
    /\ cOp.call = "again"
          => /\ ~cErr
             /\ DOMAIN cmodel.comps = DOMAIN cPrev.comps
             /\ \A i \in DOMAIN cmodel.comps :
                   /\ cmodel.comps[i].X0 = cPrev.comps[i].X0
                   /\ cmodel.comps[i].Y0 = cPrev.comps[i].Y0

====
